---- MODULE Spec2Model ----
(***************************************************************************)
(* Model of the map selection / group-comparison widget of                 *)
(* components/maplibre_parcel_map.py (the COMPONENT_JS script).            *)
(*                                                                         *)
(* The widget is single threaded: every input event (map load, map click,  *)
(* mode button, Confirm, Reset, Compare) runs its handler to completion.   *)
(* Each action below is one whole handler, with every nested call.         *)
(***************************************************************************)
EXTENDS Integers, Sequences, FiniteSets, TLC

(***************************************************************************)
(* Bounds                                                                  *)
(***************************************************************************)
\* number of rows (features) of one map load
NumFeatures == 3

\* number of events (the map load included) handled in one run
MaxEvents == 9

\* longest feature list given to calculateGroupAggregate on its own
MaxGroupLen == 2

\* longest array of metric values given to calculate_colors
MaxValues == 3

\* largest number of rows of the data frame given to build_geojson_maplibre
MaxRows == 3

(***************************************************************************)
(* Program constants                                                       *)
(***************************************************************************)
MAX_SELECTIONS == 2

Modes == {"individual", "group"}

GroupStates == {"IDLE", "SELECTING_G1", "SELECTING_G2", "COMPLETE"}

\* JavaScript null (confirmedGroup1/2, group1/group2 of the payload, aggregate)
Null == [isNull |-> TRUE]

\* the host holds no value for 'selected_features' before the first push
NoValue == [kind |-> "none"]

(***************************************************************************)
(* The feature collection handed to the widget (data.geojson.features).    *)
(* Row i carries the numeric id i (used for setFeatureState) and the       *)
(* business key properties.feature_id (used by the selection lists).       *)
(***************************************************************************)
Rows == 0 .. (NumFeatures - 1)

\* business key of row i: distinct from the numeric id, unique within a load
FeatureKey(i) == 100 + i

\* raw metric columns of row i (small integers; row 0 has lot_size 0)
TotalValueOf(i) == 10 * (i + 1)
LandValueOf(i) == 4 * (i + 1)
LotSizeOf(i) == (i % 3) * 1000
NetTaxesOf(i) == (i % 3) * 100 + 100
AlignmentOf(i) == i % 2

MkFeature(i, t) ==
    [id |-> i,
     properties |-> [feature_id |-> FeatureKey(i),
                     overlay_type |-> t,
                     total_value |-> TotalValueOf(i),
                     land_value |-> LandValueOf(i),
                     lot_size |-> LotSizeOf(i),
                     net_taxes |-> NetTaxesOf(i),
                     alignment_index |-> AlignmentOf(i)]]

\* The collections given to the widget: the first k rows are parcels and the
\* rest area plans.  k = NumFeatures is what build_geojson_maplibre produces
\* (one overlay type for the whole load); the others exercise the widget's
\* own overlay-type validation.
FeatureCollections ==
    { [n \in 1 .. NumFeatures |->
          MkFeature(n - 1, IF n <= k THEN "parcels" ELSE "area_plans")] :
        k \in 1 .. NumFeatures }

VARIABLES
    data,              \* data.geojson.features (read-only after construction)
    loaded,            \* the map 'load' event has run (handlers attached)
    selectionMode,
    groupModeState,
    selectedFeatures,
    group1Features,
    group2Features,
    confirmedGroup1,
    confirmedGroup2,
    featureGroupMap,
    featureState,      \* MapLibre feature-state, by numeric feature id
    ui,                \* confirm / compare buttons of the group panel
    hostValue,         \* host-held value of 'selected_features'
    pushed,            \* values given to setStateValue by the last event
    lastEvent,         \* the event handled last
    before,            \* what that event found: modes, list sizes, kind of host value
    steps,             \* number of events handled so far
    heldAtConfirm,     \* the working list each group held when it was confirmed
    callLog,           \* calls of transitionGroupState / resetGroupMode in that event
    aggFeatures,       \* calculateGroupAggregate on its own: the argument
    aggregate,         \* calculateGroupAggregate on its own: the value returned
    values,            \* calculate_colors: the argument
    colors,            \* calculate_colors: the value returned
    df,                \* build_geojson_maplibre: the arguments
    geojson,           \* build_geojson_maplibre: the value returned
    deltaArgs,         \* calculate_metric_delta: the arguments
    delta              \* calculate_metric_delta: the value returned

vars == <<data, loaded, selectionMode, groupModeState, selectedFeatures,
          group1Features, group2Features, confirmedGroup1, confirmedGroup2,
          featureGroupMap, featureState, ui, hostValue, pushed, lastEvent,
          before, steps, heldAtConfirm, callLog, aggFeatures, aggregate, values,
          colors,
          df, geojson, deltaArgs, delta>>

\* the variables of the widget
widgetVars == <<data, loaded, selectionMode, groupModeState, selectedFeatures,
                group1Features, group2Features, confirmedGroup1, confirmedGroup2,
                featureGroupMap, featureState, ui, hostValue, pushed, lastEvent,
                before, steps, heldAtConfirm, callLog>>

\* the variables of the functions that are applied on their own
aggregateVars == <<aggFeatures, aggregate>>
colorVars == <<values, colors>>
geojsonVars == <<df, geojson>>
deltaVars == <<deltaArgs, delta>>

(***************************************************************************)
(* Helpers on sequences and maps                                           *)
(***************************************************************************)
\* Array.prototype.findIndex(f => f.id === key): 1-based, 0 when absent
FindIndex(arr, key) ==
    IF \E i \in 1 .. Len(arr) : arr[i].id = key
    THEN CHOOSE i \in 1 .. Len(arr) :
            /\ arr[i].id = key
            /\ \A j \in 1 .. (i - 1) : arr[j].id # key
    ELSE 0

\* Array.prototype.splice(index, 1)
Splice(arr, i) == [j \in 1 .. (Len(arr) - 1) |-> IF j < i THEN arr[j] ELSE arr[j + 1]]

Ids(arr) == { arr[i].id : i \in 1 .. Len(arr) }

\* data.geojson.features.find(gf => gf.properties.feature_id === key)
FindFeature(d, key) ==
    IF \E i \in 1 .. Len(d) : d[i].properties.feature_id = key
    THEN CHOOSE i \in 1 .. Len(d) :
            /\ d[i].properties.feature_id = key
            /\ \A j \in 1 .. (i - 1) : d[j].properties.feature_id # key
    ELSE 0

MapSet(m, k, v) == [x \in (DOMAIN m) \cup {k} |-> IF x = k THEN v ELSE m[x]]
MapDelete(m, k) == [x \in (DOMAIN m) \ {k} |-> m[x]]
EmptyMap == [x \in {} |-> "group1"]

\* map.setFeatureState({id}, {selected: sel}) : groupMembership is kept
SetSelected(fs, id, sel) ==
    [fs EXCEPT ![id] = [selected |-> sel, groupMembership |-> fs[id].groupMembership]]

\* map.setFeatureState({id}, {selected: sel, groupMembership: g})
\* variant: the group tag is not written, only the selected flag
SetSelectedGroup_NoTag(fs, id, sel, g) ==
    [fs EXCEPT ![id] = [selected |-> sel, groupMembership |-> fs[id].groupMembership]]

SetSelectedGroup(fs, id, sel, g) ==
    [fs EXCEPT ![id] = [selected |-> sel, groupMembership |-> g]]

(***************************************************************************)
(* The widget's mutable state as one record, so that a handler and the     *)
(* functions it calls compose as in the script.                            *)
(***************************************************************************)
St ==
    [selectionMode |-> selectionMode,
     groupModeState |-> groupModeState,
     selectedFeatures |-> selectedFeatures,
     group1Features |-> group1Features,
     group2Features |-> group2Features,
     confirmedGroup1 |-> confirmedGroup1,
     confirmedGroup2 |-> confirmedGroup2,
     featureGroupMap |-> featureGroupMap,
     featureState |-> featureState,
     ui |-> ui,
     hostValue |-> hostValue,
     pushed |-> <<>>,
     calls |-> <<>>,
     depth |-> 0,
     thrown |-> FALSE]

\* buildFeatureObject(props, labelValue): the entry kept in the lists
\* (the label and the per-sqft display metrics are copied the same way)
BuildFeatureObject(props) ==
    [id |-> props.feature_id,
     overlay_type |-> props.overlay_type,
     properties |-> [total_value |-> props.total_value,
                     land_value |-> props.land_value,
                     lot_size |-> props.lot_size,
                     net_taxes |-> props.net_taxes,
                     alignment_index |-> props.alignment_index]]

(***************************************************************************)
(* calculateGroupAggregate                                                 *)
(***************************************************************************)
RECURSIVE GCD(_, _)
GCD(a, b) == IF b = 0 THEN a ELSE GCD(b, a % b)

\* a JavaScript quotient n / d of non-negative numbers, kept exact as a reduced
\* fraction; n / 0 does not throw, it is Infinity or NaN (den = 0)
Quotient(n, d) ==
    IF d = 0 THEN [num |-> n, den |-> 0]
    ELSE [num |-> n \div GCD(n, d), den |-> d \div GCD(n, d)]

Zero == [num |-> 0, den |-> 1]

RECURSIVE SumOver(_, _)
SumOver(features, field) ==
    IF features = <<>> THEN 0
    ELSE Head(features).properties[field] + SumOver(Tail(features), field)

\* variant: the alignment index is the sum, not divided by the count
CalculateGroupAggregate_AlignmentSum(features) ==
    IF Len(features) = 0 THEN Null
    ELSE LET lot == SumOver(features, "lot_size")
             taxes == SumOver(features, "net_taxes")
             land == SumOver(features, "land_value")
         IN [count |-> Len(features),
             total_value |-> SumOver(features, "total_value"),
             land_value |-> land,
             lot_size |-> lot,
             net_taxes |-> taxes,
             net_taxes_per_sqft |-> IF lot > 0 THEN Quotient(taxes, lot) ELSE Zero,
             land_value_per_sqft |-> IF lot > 0 THEN Quotient(land, lot) ELSE Zero,
             alignment_index |-> Quotient(SumOver(features, "alignment_index"), 1)]

\* variant: the per-sqft metrics are divided without looking at the lot size
CalculateGroupAggregate_NoGuard(features) ==
    IF Len(features) = 0 THEN Null
    ELSE LET lot == SumOver(features, "lot_size")
             taxes == SumOver(features, "net_taxes")
             land == SumOver(features, "land_value")
         IN [count |-> Len(features),
             total_value |-> SumOver(features, "total_value"),
             land_value |-> land,
             lot_size |-> lot,
             net_taxes |-> taxes,
             net_taxes_per_sqft |-> Quotient(taxes, lot),
             land_value_per_sqft |-> Quotient(land, lot),
             alignment_index |->
                 Quotient(SumOver(features, "alignment_index"), Len(features))]

CalculateGroupAggregate(features) ==
    IF Len(features) = 0 THEN Null
    ELSE LET lot == SumOver(features, "lot_size")
             taxes == SumOver(features, "net_taxes")
             land == SumOver(features, "land_value")
         IN [count |-> Len(features),
             total_value |-> SumOver(features, "total_value"),
             land_value |-> land,
             lot_size |-> lot,
             net_taxes |-> taxes,
             net_taxes_per_sqft |-> IF lot > 0 THEN Quotient(taxes, lot) ELSE Zero,
             land_value_per_sqft |-> IF lot > 0 THEN Quotient(land, lot) ELSE Zero,
             alignment_index |->
                 Quotient(SumOver(features, "alignment_index"), Len(features))]

(***************************************************************************)
(* Sync to the host                                                        *)
(***************************************************************************)
\* setStateValue('selected_features', v)
SetStateValue(s, v) == [s EXCEPT !.hostValue = v, !.pushed = Append(s.pushed, v)]

IndividualValue(features) == [kind |-> "individual", features |-> features]

SyncToPython(s) ==
    IF s.selectionMode = "individual"
    THEN SetStateValue(s, IndividualValue(s.selectedFeatures))
    ELSE s

GroupPart(confirmed) ==
    IF confirmed # Null
    THEN [features |-> confirmed.features,
          aggregate |-> CalculateGroupAggregate(confirmed.features)]
    ELSE Null

\* variant: the payload is built from the working lists at the time of the
\* COMPARE, not from the confirmed snapshots
SyncGroupsToPython_WorkingLists(s) ==
    SetStateValue(s, [kind |-> "group",
                      comparison_mode |-> "group",
                      group1 |-> GroupPart(IF s.confirmedGroup1 # Null
                                           THEN [features |-> s.group1Features]
                                           ELSE Null),
                      group2 |-> GroupPart(IF s.confirmedGroup2 # Null
                                           THEN [features |-> s.group2Features]
                                           ELSE Null)])

SyncGroupsToPython(s) ==
    SetStateValue(s, [kind |-> "group",
                      comparison_mode |-> "group",
                      group1 |-> GroupPart(s.confirmedGroup1),
                      group2 |-> GroupPart(s.confirmedGroup2)])

(***************************************************************************)
(* updateGroupModeUI: button visibility, label and disabled state          *)
(***************************************************************************)
\* variant: the confirm button of Group 2 is enabled by the list of Group 1
UpdateGroupModeUI_DisabledByGroup1(s) ==
    IF s.groupModeState = "COMPLETE"
    THEN [s EXCEPT !.ui.confirmShown = FALSE, !.ui.compareShown = TRUE]
    ELSE IF s.groupModeState \in {"SELECTING_G1", "IDLE"}
    THEN [s EXCEPT !.ui = [confirmShown |-> TRUE, compareShown |-> FALSE,
                           confirmText |-> "Confirm Group 1",
                           confirmDisabled |-> (Len(s.group1Features) = 0)]]
    ELSE [s EXCEPT !.ui = [confirmShown |-> TRUE, compareShown |-> FALSE,
                           confirmText |-> "Confirm Group 2",
                           confirmDisabled |-> (Len(s.group1Features) = 0)]]

UpdateGroupModeUI(s) ==
    IF s.groupModeState = "COMPLETE"
    THEN [s EXCEPT !.ui.confirmShown = FALSE, !.ui.compareShown = TRUE]
    ELSE IF s.groupModeState \in {"SELECTING_G1", "IDLE"}
    THEN [s EXCEPT !.ui = [confirmShown |-> TRUE, compareShown |-> FALSE,
                           confirmText |-> "Confirm Group 1",
                           confirmDisabled |-> (Len(s.group1Features) = 0)]]
    ELSE [s EXCEPT !.ui = [confirmShown |-> TRUE, compareShown |-> FALSE,
                           confirmText |-> "Confirm Group 2",
                           confirmDisabled |-> (Len(s.group2Features) = 0)]]

(***************************************************************************)
(* Unmark, in list order, the features of a list                           *)
(***************************************************************************)
RECURSIVE UnmarkAll(_, _)
UnmarkAll(fs, features) ==
    IF features = <<>> THEN fs
    ELSE LET idx == FindFeature(data, Head(features).id)
             fs1 == IF idx # 0
                    THEN SetSelectedGroup(fs, data[idx].id, FALSE, "null")
                    ELSE fs
         IN UnmarkAll(fs1, Tail(features))

(***************************************************************************)
(* transitionGroupState / resetGroupMode (mutually recursive)              *)
(***************************************************************************)
RECURSIVE TransitionGroupState(_, _)
RECURSIVE ResetGroupMode(_)

\* the engine's call stack holds a limited number of frames; a call beyond
\* the limit throws a RangeError, which unwinds the handler
CallStackLimit == 6

\* a call of fn(arg): a frame is pushed and the call is recorded with the
\* machine state it finds
Enter(s, fn, arg) ==
    IF s.thrown \/ s.depth >= CallStackLimit
    THEN [s EXCEPT !.thrown = TRUE]
    ELSE [s EXCEPT !.depth = @ + 1,
                   !.calls = Append(@, [fn |-> fn,
                                        action |-> arg,
                                        found |-> s.groupModeState,
                                        depth |-> s.depth + 1])]

\* the return of a call: its frame is popped (not while an error unwinds)
Return(s) == IF s.thrown THEN s ELSE [s EXCEPT !.depth = @ - 1]

\* variant: the reset forgets to unmark the features of the groups
ResetGroupMode_KeepMarks(s) ==
    LET cleared ==
            [s EXCEPT
                !.group1Features = <<>>,
                !.group2Features = <<>>,
                !.confirmedGroup1 = Null,
                !.confirmedGroup2 = Null,
                !.featureGroupMap = EmptyMap,
                !.groupModeState = "IDLE"]
    IN IF cleared.selectionMode = "group"
       THEN TransitionGroupState(cleared, "START_SELECTING")
       ELSE cleared

\* variant: the reset leaves the machine in IDLE also in group mode
ResetGroupMode_NoRestart(s) ==
    [s EXCEPT
        !.featureState = UnmarkAll(s.featureState,
                                   s.group1Features \o s.group2Features),
        !.group1Features = <<>>,
        !.group2Features = <<>>,
        !.confirmedGroup1 = Null,
        !.confirmedGroup2 = Null,
        !.featureGroupMap = EmptyMap,
        !.groupModeState = "IDLE"]

\* variant: the machine state is kept and the restart is asked for with
\* RESET, which comes back to resetGroupMode
ResetGroupMode_RestartWithReset(s) ==
    LET entered == Enter(s, "resetGroupMode", "none")
        cleared ==
            [entered EXCEPT
                !.featureState = UnmarkAll(s.featureState,
                                           s.group1Features \o s.group2Features),
                !.group1Features = <<>>,
                !.group2Features = <<>>,
                !.confirmedGroup1 = Null,
                !.confirmedGroup2 = Null,
                !.featureGroupMap = EmptyMap]
    IN IF entered.thrown THEN entered
       ELSE IF cleared.selectionMode = "group"
       THEN Return(TransitionGroupState(cleared, "RESET"))
       ELSE Return(cleared)

ResetGroupMode(s) ==
    LET entered == Enter(s, "resetGroupMode", "none")
        cleared ==
            [entered EXCEPT
                !.featureState = UnmarkAll(s.featureState,
                                           s.group1Features \o s.group2Features),
                !.group1Features = <<>>,
                !.group2Features = <<>>,
                !.confirmedGroup1 = Null,
                !.confirmedGroup2 = Null,
                !.featureGroupMap = EmptyMap,
                !.groupModeState = "IDLE"]
    IN IF entered.thrown THEN entered
       ELSE IF cleared.selectionMode = "group"
       THEN Return(TransitionGroupState(cleared, "START_SELECTING"))
       ELSE Return(cleared)

\* variant: CONFIRM does not look at the size of the active group
TransitionGroupState_ConfirmEmpty(s, action) ==
    LET after ==
            CASE s.groupModeState = "IDLE" ->
                    IF action = "START_SELECTING"
                    THEN [s EXCEPT !.groupModeState = "SELECTING_G1"]
                    ELSE s
              [] s.groupModeState = "SELECTING_G1" ->
                    IF action = "CONFIRM"
                    THEN [s EXCEPT !.confirmedGroup1 = [features |-> s.group1Features],
                                   !.groupModeState = "SELECTING_G2"]
                    ELSE IF action = "RESET" THEN ResetGroupMode(s) ELSE s
              [] s.groupModeState = "SELECTING_G2" ->
                    IF action = "CONFIRM"
                    THEN [s EXCEPT !.confirmedGroup2 = [features |-> s.group2Features],
                                   !.groupModeState = "COMPLETE"]
                    ELSE IF action = "RESET" THEN ResetGroupMode(s) ELSE s
              [] s.groupModeState = "COMPLETE" ->
                    IF action = "COMPARE" THEN SyncGroupsToPython(s)
                    ELSE IF action = "RESET" THEN ResetGroupMode(s) ELSE s
    IN UpdateGroupModeUI(after)

\* variant: the confirmation of Group 2 snapshots the list of Group 1
TransitionGroupState_SnapshotGroup1(s, action) ==
    LET after ==
            CASE s.groupModeState = "IDLE" ->
                    IF action = "START_SELECTING"
                    THEN [s EXCEPT !.groupModeState = "SELECTING_G1"]
                    ELSE s
              [] s.groupModeState = "SELECTING_G1" ->
                    IF action = "CONFIRM" /\ Len(s.group1Features) > 0
                    THEN [s EXCEPT !.confirmedGroup1 = [features |-> s.group1Features],
                                   !.groupModeState = "SELECTING_G2"]
                    ELSE IF action = "RESET" THEN ResetGroupMode(s) ELSE s
              [] s.groupModeState = "SELECTING_G2" ->
                    IF action = "CONFIRM" /\ Len(s.group2Features) > 0
                    THEN [s EXCEPT !.confirmedGroup2 = [features |-> s.group1Features],
                                   !.groupModeState = "COMPLETE"]
                    ELSE IF action = "RESET" THEN ResetGroupMode(s) ELSE s
              [] s.groupModeState = "COMPLETE" ->
                    IF action = "COMPARE" THEN SyncGroupsToPython(s)
                    ELSE IF action = "RESET" THEN ResetGroupMode(s) ELSE s
    IN UpdateGroupModeUI(after)

\* variant: after the payload is pushed the COMPARE starts a new grouping
TransitionGroupState_CompareResets(s, action) ==
    LET after ==
            CASE s.groupModeState = "IDLE" ->
                    IF action = "START_SELECTING"
                    THEN [s EXCEPT !.groupModeState = "SELECTING_G1"]
                    ELSE s
              [] s.groupModeState = "SELECTING_G1" ->
                    IF action = "CONFIRM" /\ Len(s.group1Features) > 0
                    THEN [s EXCEPT !.confirmedGroup1 = [features |-> s.group1Features],
                                   !.groupModeState = "SELECTING_G2"]
                    ELSE IF action = "RESET" THEN ResetGroupMode(s) ELSE s
              [] s.groupModeState = "SELECTING_G2" ->
                    IF action = "CONFIRM" /\ Len(s.group2Features) > 0
                    THEN [s EXCEPT !.confirmedGroup2 = [features |-> s.group2Features],
                                   !.groupModeState = "COMPLETE"]
                    ELSE IF action = "RESET" THEN ResetGroupMode(s) ELSE s
              [] s.groupModeState = "COMPLETE" ->
                    IF action = "COMPARE" THEN ResetGroupMode(SyncGroupsToPython(s))
                    ELSE IF action = "RESET" THEN ResetGroupMode(s) ELSE s
    IN UpdateGroupModeUI(after)

\* variant: a COMPARE is also taken in SELECTING_G2, before Group 2 is confirmed
TransitionGroupState_CompareEarly(s, action) ==
    LET after ==
            CASE s.groupModeState = "IDLE" ->
                    IF action = "START_SELECTING"
                    THEN [s EXCEPT !.groupModeState = "SELECTING_G1"]
                    ELSE s
              [] s.groupModeState = "SELECTING_G1" ->
                    IF action = "CONFIRM" /\ Len(s.group1Features) > 0
                    THEN [s EXCEPT !.confirmedGroup1 = [features |-> s.group1Features],
                                   !.groupModeState = "SELECTING_G2"]
                    ELSE IF action = "RESET" THEN ResetGroupMode(s) ELSE s
              [] s.groupModeState = "SELECTING_G2" ->
                    IF action = "CONFIRM" /\ Len(s.group2Features) > 0
                    THEN [s EXCEPT !.confirmedGroup2 = [features |-> s.group2Features],
                                   !.groupModeState = "COMPLETE"]
                    ELSE IF action = "COMPARE" THEN SyncGroupsToPython(s)
                    ELSE IF action = "RESET" THEN ResetGroupMode(s) ELSE s
              [] s.groupModeState = "COMPLETE" ->
                    IF action = "COMPARE" THEN SyncGroupsToPython(s)
                    ELSE IF action = "RESET" THEN ResetGroupMode(s) ELSE s
    IN UpdateGroupModeUI(after)

TransitionGroupState(s, action) ==
    LET e == Enter(s, "transitionGroupState", action)
        after ==
            CASE e.groupModeState = "IDLE" ->
                    IF action = "START_SELECTING"
                    THEN [e EXCEPT !.groupModeState = "SELECTING_G1"]
                    ELSE e
              [] e.groupModeState = "SELECTING_G1" ->
                    IF action = "CONFIRM" /\ Len(e.group1Features) > 0
                    THEN [e EXCEPT !.confirmedGroup1 = [features |-> e.group1Features],
                                   !.groupModeState = "SELECTING_G2"]
                    ELSE IF action = "RESET" THEN ResetGroupMode(e) ELSE e
              [] e.groupModeState = "SELECTING_G2" ->
                    IF action = "CONFIRM" /\ Len(e.group2Features) > 0
                    THEN [e EXCEPT !.confirmedGroup2 = [features |-> e.group2Features],
                                   !.groupModeState = "COMPLETE"]
                    ELSE IF action = "RESET" THEN ResetGroupMode(e) ELSE e
              [] e.groupModeState = "COMPLETE" ->
                    IF action = "COMPARE" THEN SyncGroupsToPython(e)
                    ELSE IF action = "RESET" THEN ResetGroupMode(e) ELSE e
    IN IF e.thrown THEN e
       ELSE IF after.thrown THEN after
       ELSE Return(UpdateGroupModeUI(after))

(***************************************************************************)
(* clearAllSelections / switchSelectionMode                                *)
(***************************************************************************)
\* variant: the individual list is emptied without unmarking its features
ClearAllSelections_KeepMarks(s) ==
    ResetGroupMode([s EXCEPT !.selectedFeatures = <<>>])

\* variant: only the group selections are cleared, the individual list stays
ClearAllSelections_KeepSelected(s) == ResetGroupMode(s)

ClearAllSelections(s) ==
    ResetGroupMode([s EXCEPT
        !.featureState = UnmarkAll(s.featureState, s.selectedFeatures),
        !.selectedFeatures = <<>>])

\* variant: the switch back to individual mode does not push the emptied set
SwitchSelectionMode_NoSync(s, newMode) ==
    IF newMode = s.selectionMode THEN s
    ELSE LET switched == [ClearAllSelections(s) EXCEPT !.selectionMode = newMode]
         IN IF newMode = "individual"
            THEN switched
            ELSE TransitionGroupState(switched, "START_SELECTING")

\* variant: the button of the active mode is not told apart, it clears and
\* restarts like a switch
\* variant: the sync runs before the mode is reassigned
SwitchSelectionMode_SyncBeforeMode(s, newMode) ==
    IF newMode = s.selectionMode THEN s
    ELSE LET cleared == ClearAllSelections(s)
         IN IF newMode = "individual"
            THEN [SyncToPython(cleared) EXCEPT !.selectionMode = newMode]
            ELSE TransitionGroupState([cleared EXCEPT !.selectionMode = newMode],
                                      "START_SELECTING")

SwitchSelectionMode_NoEarlyReturn(s, newMode) ==
    LET switched == [ClearAllSelections(s) EXCEPT !.selectionMode = newMode]
    IN IF newMode = "individual"
       THEN SyncToPython(switched)
       ELSE TransitionGroupState(switched, "START_SELECTING")

SwitchSelectionMode(s, newMode) ==
    IF newMode = s.selectionMode THEN s
    ELSE LET switched == [ClearAllSelections(s) EXCEPT !.selectionMode = newMode]
         IN IF newMode = "individual"
            THEN SyncToPython(switched)
            ELSE TransitionGroupState(switched, "START_SELECTING")

(***************************************************************************)
(* Map click: validateOverlayType, then the handler of the current mode    *)
(***************************************************************************)
\* variant: the overlay type is never checked
ValidateOverlayType_Always(s, props) == TRUE

\* variant: in group mode only the list of Group 2 establishes the type
ValidateOverlayType_Group2Only(s, props) ==
    IF /\ s.selectionMode = "individual"
       /\ Len(s.selectedFeatures) > 0
       /\ props.overlay_type # s.selectedFeatures[1].overlay_type
    THEN FALSE
    ELSE IF s.selectionMode = "group"
    THEN LET established == s.group2Features
         IN ~ (Len(established) > 0 /\ props.overlay_type # established[1].overlay_type)
    ELSE TRUE

ValidateOverlayType(s, props) ==
    IF /\ s.selectionMode = "individual"
       /\ Len(s.selectedFeatures) > 0
       /\ props.overlay_type # s.selectedFeatures[1].overlay_type
    THEN FALSE
    ELSE IF s.selectionMode = "group"
    THEN LET established == IF Len(s.group1Features) > 0 THEN s.group1Features
                            ELSE s.group2Features
         IN ~ (Len(established) > 0 /\ props.overlay_type # established[1].overlay_type)
    ELSE TRUE

\* variant: at capacity the newest entry is replaced (pop instead of shift)
HandleIndividualClick_EvictNewest(s, featureId, props) ==
    LET existingIndex == FindIndex(s.selectedFeatures, props.feature_id)
        changed ==
            IF existingIndex > 0
            THEN [s EXCEPT
                    !.selectedFeatures = Splice(s.selectedFeatures, existingIndex),
                    !.featureState = SetSelected(s.featureState, featureId, FALSE)]
            ELSE LET evicting == Len(s.selectedFeatures) >= MAX_SELECTIONS
                     kept == IF evicting
                             THEN SubSeq(s.selectedFeatures, 1, Len(s.selectedFeatures) - 1)
                             ELSE s.selectedFeatures
                     oldIdx == IF evicting
                               THEN FindFeature(data,
                                        s.selectedFeatures[Len(s.selectedFeatures)].id)
                               ELSE 0
                     fs1 == IF oldIdx # 0
                            THEN SetSelected(s.featureState, data[oldIdx].id, FALSE)
                            ELSE s.featureState
                 IN [s EXCEPT
                        !.selectedFeatures = Append(kept, BuildFeatureObject(props)),
                        !.featureState = SetSelected(fs1, featureId, TRUE)]
    IN SyncToPython(changed)

\* variant: a re-selected feature is put at the front of the list (unshift)
HandleIndividualClick_Prepend(s, featureId, props) ==
    LET existingIndex == FindIndex(s.selectedFeatures, props.feature_id)
        changed ==
            IF existingIndex > 0
            THEN [s EXCEPT
                    !.selectedFeatures = Splice(s.selectedFeatures, existingIndex),
                    !.featureState = SetSelected(s.featureState, featureId, FALSE)]
            ELSE LET evicting == Len(s.selectedFeatures) >= MAX_SELECTIONS
                     kept == IF evicting THEN Tail(s.selectedFeatures)
                             ELSE s.selectedFeatures
                     oldIdx == IF evicting
                               THEN FindFeature(data, Head(s.selectedFeatures).id)
                               ELSE 0
                     fs1 == IF oldIdx # 0
                            THEN SetSelected(s.featureState, data[oldIdx].id, FALSE)
                            ELSE s.featureState
                 IN [s EXCEPT
                        !.selectedFeatures = <<BuildFeatureObject(props)>> \o kept,
                        !.featureState = SetSelected(fs1, featureId, TRUE)]
    IN SyncToPython(changed)

HandleIndividualClick(s, featureId, props) ==
    LET existingIndex == FindIndex(s.selectedFeatures, props.feature_id)
        changed ==
            IF existingIndex > 0
            THEN \* deselect
                 [s EXCEPT
                    !.selectedFeatures = Splice(s.selectedFeatures, existingIndex),
                    !.featureState = SetSelected(s.featureState, featureId, FALSE)]
            ELSE \* select with FIFO replacement
                 LET evicting == Len(s.selectedFeatures) >= MAX_SELECTIONS
                     kept == IF evicting THEN Tail(s.selectedFeatures)
                             ELSE s.selectedFeatures
                     oldIdx == IF evicting
                               THEN FindFeature(data, Head(s.selectedFeatures).id)
                               ELSE 0
                     fs1 == IF oldIdx # 0
                            THEN SetSelected(s.featureState, data[oldIdx].id, FALSE)
                            ELSE s.featureState
                 IN [s EXCEPT
                        !.selectedFeatures = Append(kept, BuildFeatureObject(props)),
                        !.featureState = SetSelected(fs1, featureId, TRUE)]
    IN SyncToPython(changed)

\* variant: membership of confirmed Group 1 is not checked
HandleGroupClick_NoGroup1Check(s, featureId, props) ==
    LET activeGroup == IF s.groupModeState \in {"SELECTING_G1", "IDLE"}
                       THEN "group1" ELSE "group2"
        activeArray == IF activeGroup = "group1" THEN s.group1Features
                       ELSE s.group2Features
        existingIndex == FindIndex(activeArray, props.feature_id)
        newArray == IF existingIndex > 0 THEN Splice(activeArray, existingIndex)
                    ELSE Append(activeArray, BuildFeatureObject(props))
        withArray == IF activeGroup = "group1"
                     THEN [s EXCEPT !.group1Features = newArray]
                     ELSE [s EXCEPT !.group2Features = newArray]
    IN IF existingIndex > 0
       THEN UpdateGroupModeUI(
                [withArray EXCEPT
                    !.featureGroupMap = MapDelete(s.featureGroupMap, props.feature_id),
                    !.featureState = SetSelectedGroup(s.featureState, featureId,
                                                      FALSE, "null")])
       ELSE UpdateGroupModeUI(
                [withArray EXCEPT
                    !.featureGroupMap = MapSet(s.featureGroupMap, props.feature_id,
                                               activeGroup),
                    !.featureState = SetSelectedGroup(s.featureState, featureId,
                                                      TRUE, activeGroup)])

\* variant: the confirmed-group check looks at the feature map of the active
\* group instead of confirmed Group 1
HandleGroupClick_CheckActive(s, featureId, props) ==
    LET activeGroup == IF s.groupModeState \in {"SELECTING_G1", "IDLE"}
                       THEN "group1" ELSE "group2"
        activeArray == IF activeGroup = "group1" THEN s.group1Features
                       ELSE s.group2Features
        existingIndex == FindIndex(activeArray, props.feature_id)
        inGroup1 == /\ activeGroup = "group1"
                    /\ s.confirmedGroup1 # Null
                    /\ props.feature_id \in Ids(s.confirmedGroup1.features)
        newArray == IF existingIndex > 0 THEN Splice(activeArray, existingIndex)
                    ELSE Append(activeArray, BuildFeatureObject(props))
        withArray == IF activeGroup = "group1"
                     THEN [s EXCEPT !.group1Features = newArray]
                     ELSE [s EXCEPT !.group2Features = newArray]
    IN IF inGroup1 THEN s
       ELSE IF existingIndex > 0
       THEN UpdateGroupModeUI(
                [withArray EXCEPT
                    !.featureGroupMap = MapDelete(s.featureGroupMap, props.feature_id),
                    !.featureState = SetSelectedGroup(s.featureState, featureId,
                                                      FALSE, "null")])
       ELSE UpdateGroupModeUI(
                [withArray EXCEPT
                    !.featureGroupMap = MapSet(s.featureGroupMap, props.feature_id,
                                               activeGroup),
                    !.featureState = SetSelectedGroup(s.featureState, featureId,
                                                      TRUE, activeGroup)])

\* variant: every accepted group click also pushes the groups to the host
HandleGroupClick_Syncing(s, featureId, props) ==
    LET activeGroup == IF s.groupModeState \in {"SELECTING_G1", "IDLE"}
                       THEN "group1" ELSE "group2"
        activeArray == IF activeGroup = "group1" THEN s.group1Features
                       ELSE s.group2Features
        existingIndex == FindIndex(activeArray, props.feature_id)
        inGroup1 == /\ activeGroup = "group2"
                    /\ s.confirmedGroup1 # Null
                    /\ props.feature_id \in Ids(s.confirmedGroup1.features)
        newArray == IF existingIndex > 0 THEN Splice(activeArray, existingIndex)
                    ELSE Append(activeArray, BuildFeatureObject(props))
        withArray == IF activeGroup = "group1"
                     THEN [s EXCEPT !.group1Features = newArray]
                     ELSE [s EXCEPT !.group2Features = newArray]
    IN IF inGroup1 THEN s
       ELSE IF existingIndex > 0
       THEN SyncGroupsToPython(UpdateGroupModeUI(
                [withArray EXCEPT
                    !.featureGroupMap = MapDelete(s.featureGroupMap, props.feature_id),
                    !.featureState = SetSelectedGroup(s.featureState, featureId,
                                                      FALSE, "null")]))
       ELSE SyncGroupsToPython(UpdateGroupModeUI(
                [withArray EXCEPT
                    !.featureGroupMap = MapSet(s.featureGroupMap, props.feature_id,
                                               activeGroup),
                    !.featureState = SetSelectedGroup(s.featureState, featureId,
                                                      TRUE, activeGroup)]))

\* variant: the snapshot of Group 2 shares its list with the working group
\* (no copy at confirmation), so a later click edits the snapshot as well
HandleGroupClick_SharedList(s, featureId, props) ==
    LET activeGroup == IF s.groupModeState \in {"SELECTING_G1", "IDLE"}
                       THEN "group1" ELSE "group2"
        activeArray == IF activeGroup = "group1" THEN s.group1Features
                       ELSE s.group2Features
        existingIndex == FindIndex(activeArray, props.feature_id)
        inGroup1 == /\ activeGroup = "group2"
                    /\ s.confirmedGroup1 # Null
                    /\ props.feature_id \in Ids(s.confirmedGroup1.features)
        newArray == IF existingIndex > 0 THEN Splice(activeArray, existingIndex)
                    ELSE Append(activeArray, BuildFeatureObject(props))
        withArray == IF activeGroup = "group1"
                     THEN [s EXCEPT !.group1Features = newArray]
                     ELSE IF s.confirmedGroup2 # Null
                     THEN [s EXCEPT !.group2Features = newArray,
                                    !.confirmedGroup2 = [features |-> newArray]]
                     ELSE [s EXCEPT !.group2Features = newArray]
    IN IF inGroup1 THEN s
       ELSE IF existingIndex > 0
       THEN UpdateGroupModeUI(
                [withArray EXCEPT
                    !.featureGroupMap = MapDelete(s.featureGroupMap, props.feature_id),
                    !.featureState = SetSelectedGroup(s.featureState, featureId,
                                                      FALSE, "null")])
       ELSE UpdateGroupModeUI(
                [withArray EXCEPT
                    !.featureGroupMap = MapSet(s.featureGroupMap, props.feature_id,
                                               activeGroup),
                    !.featureState = SetSelectedGroup(s.featureState, featureId,
                                                      TRUE, activeGroup)])

\* variant: a group holds at most MAX_SELECTIONS entries, the oldest entry is
\* evicted as in individual mode
HandleGroupClick_Capped(s, featureId, props) ==
    LET activeGroup == IF s.groupModeState \in {"SELECTING_G1", "IDLE"}
                       THEN "group1" ELSE "group2"
        activeArray == IF activeGroup = "group1" THEN s.group1Features
                       ELSE s.group2Features
        existingIndex == FindIndex(activeArray, props.feature_id)
        inGroup1 == /\ activeGroup = "group2"
                    /\ s.confirmedGroup1 # Null
                    /\ props.feature_id \in Ids(s.confirmedGroup1.features)
        evicting == existingIndex = 0 /\ Len(activeArray) >= MAX_SELECTIONS
        kept == IF evicting THEN Tail(activeArray) ELSE activeArray
        oldIdx == IF evicting THEN FindFeature(data, Head(activeArray).id) ELSE 0
        fs1 == IF oldIdx # 0
               THEN SetSelectedGroup(s.featureState, data[oldIdx].id, FALSE, "null")
               ELSE s.featureState
        map1 == IF evicting THEN MapDelete(s.featureGroupMap, Head(activeArray).id)
                ELSE s.featureGroupMap
        newArray == IF existingIndex > 0 THEN Splice(activeArray, existingIndex)
                    ELSE Append(kept, BuildFeatureObject(props))
        withArray == IF activeGroup = "group1"
                     THEN [s EXCEPT !.group1Features = newArray]
                     ELSE [s EXCEPT !.group2Features = newArray]
    IN IF inGroup1 THEN s
       ELSE IF existingIndex > 0
       THEN UpdateGroupModeUI(
                [withArray EXCEPT
                    !.featureGroupMap = MapDelete(s.featureGroupMap, props.feature_id),
                    !.featureState = SetSelectedGroup(s.featureState, featureId,
                                                      FALSE, "null")])
       ELSE UpdateGroupModeUI(
                [withArray EXCEPT
                    !.featureGroupMap = MapSet(map1, props.feature_id, activeGroup),
                    !.featureState = SetSelectedGroup(fs1, featureId,
                                                      TRUE, activeGroup)])

\* variant: a feature taken out of the active group keeps its entry in the
\* membership map
HandleGroupClick_KeepEntry(s, featureId, props) ==
    LET activeGroup == IF s.groupModeState \in {"SELECTING_G1", "IDLE"}
                       THEN "group1" ELSE "group2"
        activeArray == IF activeGroup = "group1" THEN s.group1Features
                       ELSE s.group2Features
        existingIndex == FindIndex(activeArray, props.feature_id)
        inGroup1 == /\ activeGroup = "group2"
                    /\ s.confirmedGroup1 # Null
                    /\ props.feature_id \in Ids(s.confirmedGroup1.features)
        newArray == IF existingIndex > 0 THEN Splice(activeArray, existingIndex)
                    ELSE Append(activeArray, BuildFeatureObject(props))
        withArray == IF activeGroup = "group1"
                     THEN [s EXCEPT !.group1Features = newArray]
                     ELSE [s EXCEPT !.group2Features = newArray]
    IN IF inGroup1 THEN s
       ELSE IF existingIndex > 0
       THEN UpdateGroupModeUI(
                [withArray EXCEPT
                    !.featureState = SetSelectedGroup(s.featureState, featureId,
                                                      FALSE, "null")])
       ELSE UpdateGroupModeUI(
                [withArray EXCEPT
                    !.featureGroupMap = MapSet(s.featureGroupMap, props.feature_id,
                                               activeGroup),
                    !.featureState = SetSelectedGroup(s.featureState, featureId,
                                                      TRUE, activeGroup)])

HandleGroupClick(s, featureId, props) ==
    LET activeGroup == IF s.groupModeState \in {"SELECTING_G1", "IDLE"}
                       THEN "group1" ELSE "group2"
        activeArray == IF activeGroup = "group1" THEN s.group1Features
                       ELSE s.group2Features
        existingIndex == FindIndex(activeArray, props.feature_id)
        inGroup1 == /\ activeGroup = "group2"
                    /\ s.confirmedGroup1 # Null
                    /\ props.feature_id \in Ids(s.confirmedGroup1.features)
        newArray == IF existingIndex > 0 THEN Splice(activeArray, existingIndex)
                    ELSE Append(activeArray, BuildFeatureObject(props))
        withArray == IF activeGroup = "group1"
                     THEN [s EXCEPT !.group1Features = newArray]
                     ELSE [s EXCEPT !.group2Features = newArray]
    IN IF inGroup1 THEN s
       ELSE IF existingIndex > 0
       THEN UpdateGroupModeUI(
                [withArray EXCEPT
                    !.featureGroupMap = MapDelete(s.featureGroupMap, props.feature_id),
                    !.featureState = SetSelectedGroup(s.featureState, featureId,
                                                      FALSE, "null")])
       ELSE UpdateGroupModeUI(
                [withArray EXCEPT
                    !.featureGroupMap = MapSet(s.featureGroupMap, props.feature_id,
                                               activeGroup),
                    !.featureState = SetSelectedGroup(s.featureState, featureId,
                                                      TRUE, activeGroup)])

\* map.on('click', 'parcels-fill', ...)
MapClick(s, feature) ==
    IF ~ ValidateOverlayType(s, feature.properties) THEN s
    ELSE IF s.selectionMode = "individual"
    THEN HandleIndividualClick(s, feature.id, feature.properties)
    ELSE HandleGroupClick(s, feature.id, feature.properties)

(***************************************************************************)
(* Events                                                                  *)
(***************************************************************************)
(***************************************************************************)
(* pages/parcel_map.py: the branch render_group_comparison takes for a     *)
(* payload (None and the empty dict are false, a dict with keys is true).  *)
(***************************************************************************)
render_group_comparison(payload) ==
    IF payload.group1 = Null \/ payload.group2 = Null
    THEN "Incomplete group selection"
    ELSE IF payload.group1.aggregate = Null \/ payload.group2.aggregate = Null
    THEN "Missing aggregate data"
    ELSE "comparison table"

Event(type, row, mode) == [type |-> type, row |-> row, mode |-> mode]

\* what an event finds when its handler starts
Found ==
    [selectionMode |-> selectionMode,
     groupModeState |-> groupModeState,
     selected |-> Len(selectedFeatures),
     group1 |-> Len(group1Features),
     group2 |-> Len(group2Features),
     host |-> hostValue.kind]

\* the handler's result becomes the next state
Becomes(t, ev) ==
    /\ selectionMode' = t.selectionMode
    /\ groupModeState' = t.groupModeState
    /\ selectedFeatures' = t.selectedFeatures
    /\ group1Features' = t.group1Features
    /\ group2Features' = t.group2Features
    /\ confirmedGroup1' = t.confirmedGroup1
    /\ confirmedGroup2' = t.confirmedGroup2
    /\ featureGroupMap' = t.featureGroupMap
    /\ featureState' = t.featureState
    /\ ui' = t.ui
    /\ hostValue' = t.hostValue
    /\ pushed' = t.pushed
    /\ lastEvent' = ev
    /\ before' = Found
    /\ steps < MaxEvents
    /\ steps' = steps + 1
    /\ heldAtConfirm' =
          [group1 |-> IF t.groupModeState \in {"IDLE", "SELECTING_G1"} THEN Null
                      ELSE IF ev.type = "CONFIRM" /\ groupModeState = "SELECTING_G1"
                      THEN [features |-> group1Features]
                      ELSE heldAtConfirm.group1,
           group2 |-> IF t.groupModeState # "COMPLETE" THEN Null
                      ELSE IF ev.type = "CONFIRM" /\ groupModeState = "SELECTING_G2"
                      THEN [features |-> group2Features]
                      ELSE heldAtConfirm.group2]
    /\ callLog' = [calls |-> t.calls, depth |-> t.depth, thrown |-> t.thrown]
    /\ UNCHANGED <<data, aggregateVars, colorVars, geojsonVars, deltaVars>>

\* the widget as its script leaves it before the map has loaded
Constructed ==
    /\ loaded = FALSE
    /\ selectionMode = "individual"
    /\ groupModeState = "IDLE"
    /\ selectedFeatures = <<>>
    /\ group1Features = <<>>
    /\ group2Features = <<>>
    /\ confirmedGroup1 = Null
    /\ confirmedGroup2 = Null
    /\ featureGroupMap = EmptyMap
    /\ featureState = [i \in Rows |-> [selected |-> FALSE, groupMembership |-> "null"]]
    /\ ui = [confirmShown |-> TRUE, compareShown |-> FALSE,
             confirmText |-> "Confirm Group 1", confirmDisabled |-> TRUE]
    /\ hostValue = NoValue
    /\ pushed = <<>>
    /\ lastEvent = Event("none", -1, "none")
    /\ steps = 0
    /\ before = [selectionMode |-> "individual", groupModeState |-> "IDLE",
                 selected |-> 0, group1 |-> 0, group2 |-> 0,
                 host |-> "none"]
    /\ heldAtConfirm = [group1 |-> Null, group2 |-> Null]
    /\ callLog = [calls |-> <<>>, depth |-> 0, thrown |-> FALSE]

\* a function applied on its own has not been called
NoAggregateCall == aggFeatures = <<>> /\ aggregate = NoValue
NoColorsCall == values = <<>> /\ colors = NoValue
NoGeojsonCall == df = NoValue /\ geojson = NoValue
NoDeltaCall == deltaArgs = NoValue /\ delta = NoValue

Init ==
    /\ data \in FeatureCollections
    /\ Constructed
    /\ NoAggregateCall
    /\ NoColorsCall
    /\ NoGeojsonCall
    /\ NoDeltaCall

\* map.on('load'): handlers are attached, then the initial sync
Load ==
    /\ ~ loaded
    /\ loaded' = TRUE
    /\ Becomes(SyncToPython(St), Event("load", -1, "none"))

\* a click on the feature of row n of the collection
ClickOn(n) ==
    /\ loaded
    /\ Becomes(MapClick(St, data[n]), Event("click", data[n].id, "none"))
    /\ UNCHANGED loaded

Click == \E n \in 1 .. Len(data) : ClickOn(n)

\* one of the two mode buttons
SwitchMode ==
    /\ loaded
    /\ \E newMode \in Modes :
          Becomes(SwitchSelectionMode(St, newMode), Event("switch", -1, newMode))
    /\ UNCHANGED loaded

Confirm ==
    /\ loaded
    /\ Becomes(TransitionGroupState(St, "CONFIRM"), Event("CONFIRM", -1, "none"))
    /\ UNCHANGED loaded

Reset ==
    /\ loaded
    /\ Becomes(TransitionGroupState(St, "RESET"), Event("RESET", -1, "none"))
    /\ UNCHANGED loaded

Compare ==
    /\ loaded
    /\ Becomes(TransitionGroupState(St, "COMPARE"), Event("COMPARE", -1, "none"))
    /\ UNCHANGED loaded

Next == Load \/ Click \/ SwitchMode \/ Confirm \/ Reset \/ Compare

Spec == Init /\ [][Next]_vars

(***************************************************************************)
(* calculateGroupAggregate on its own: applied once to a list of entries   *)
(* whose raw metrics are drawn from small sets of numbers.                 *)
(***************************************************************************)
\* raw metrics of one entry, as build_geojson_maplibre emits them (numbers,
\* 0 where the column is missing)
MetricValues ==
    [total_value : {100, 400},
     land_value : {50, 150},
     lot_size : {0, 1000, 2000},
     net_taxes : {100, 300},
     alignment_index : {0, 1}]

\* the list of the entries with the metrics m[1], ..., m[len]
FeatureList(m, len) ==
    [i \in 1 .. len |->
        [id |-> FeatureKey(i - 1), overlay_type |-> "parcels", properties |-> m[i]]]

\* the argument is any list of at most MaxGroupLen entries (the empty one too)
\* the widget, not yet loaded, while a function is applied on its own
WidgetUnloaded ==
    /\ data = [n \in 1 .. NumFeatures |-> MkFeature(n - 1, "parcels")]
    /\ Constructed

InitAggregate ==
    /\ WidgetUnloaded
    /\ NoColorsCall
    /\ NoGeojsonCall
    /\ NoDeltaCall
    /\ \E len \in 0 .. MaxGroupLen :
          \E m \in [1 .. len -> MetricValues] : aggFeatures = FeatureList(m, len)
    /\ aggregate = NoValue

\* aggregate = calculateGroupAggregate(features)
Aggregate ==
    /\ aggregate = NoValue
    /\ aggregate' = CalculateGroupAggregate(aggFeatures)
    /\ UNCHANGED <<widgetVars, aggFeatures, colorVars, geojsonVars, deltaVars>>

NextAggregate == Aggregate

SpecAggregate == InitAggregate /\ [][NextAggregate]_vars

(***************************************************************************)
(* pages/parcel_map.py: calculate_colors and interpolate_magma_color.      *)
(* A value of the metric column is a number or NaN (missing).  Percentiles *)
(* are kept exact in hundredths, a normalised value as a fraction.         *)
(***************************************************************************)
NaN == [nan |-> TRUE, v |-> 0]
Num(x) == [nan |-> FALSE, v |-> x]

\* the values a cell of the metric column is drawn from
CellValues == {NaN, Num(0), Num(3), Num(10), Num(20)}

\* MAGMA_STOPS: position (in quarters) and RGB of the five stops
MAGMA_STOPS ==
    << [pos |-> 0, color |-> <<252, 253, 191>>],
       [pos |-> 1, color |-> <<252, 143, 89>>],
       [pos |-> 2, color |-> <<183, 55, 121>>],
       [pos |-> 3, color |-> <<82, 22, 108>>],
       [pos |-> 4, color |-> <<0, 0, 4>>] >>

\* the colour of a missing value and the two opacities
MISSING_COLOR == <<128, 128, 128, 100>>
VALID_ALPHA == 180

One == [num |-> 1, den |-> 1]

\* a float that is NaN: 0 / 0
NotANumber == [num |-> 0, den |-> 0]

\* values[~np.isnan(values)]
ValidValues(vals) == SelectSeq(vals, LAMBDA c : ~ c.nan)

\* the valid values in ascending order
RECURSIVE Insert(_, _)
Insert(sorted, x) ==
    IF sorted = <<>> THEN <<x>>
    ELSE IF x <= Head(sorted) THEN <<x>> \o sorted
    ELSE <<Head(sorted)>> \o Insert(Tail(sorted), x)

RECURSIVE Sorted(_)
Sorted(valid) ==
    IF valid = <<>> THEN <<>> ELSE Insert(Sorted(Tail(valid)), Head(valid).v)

\* np.nanpercentile(valid, q), linear interpolation between the two nearest
\* ranks, in hundredths
NanPercentile(valid, q) ==
    LET sorted == Sorted(valid)
        h == q * (Len(sorted) - 1)
        lo == (h \div 100) + 1
        r == h % 100
    IN IF r = 0 THEN 100 * sorted[lo]
       ELSE 100 * sorted[lo] + r * (sorted[lo + 1] - sorted[lo])

\* np.clip(num / den, 0, 1) of numpy floats: a zero divisor gives +-inf or
\* NaN and raises nothing; NaN stays NaN
ClipUnit(num, den) ==
    IF den = 0
    THEN IF num > 0 THEN One ELSE IF num < 0 THEN Zero ELSE NotANumber
    ELSE IF num <= 0 THEN Zero
    ELSE IF num >= den THEN One
    ELSE [num |-> num, den |-> den]

\* int(c1 + t * (c2 - c1)) with t = tnum / tden in [0, 1]
Blend(c1, c2, tnum, tden) == (c1 * tden + tnum * (c2 - c1)) \div tden

\* the first pair of stops with pos1 <= norm_val <= pos2, 0 when there is none
\* (every comparison with NaN is false)
RECURSIVE StopIndex(_, _)
StopIndex(norm, i) ==
    IF i > Len(MAGMA_STOPS) - 1 THEN 0
    ELSE IF /\ norm.den # 0
            /\ MAGMA_STOPS[i].pos * norm.den <= 4 * norm.num
            /\ 4 * norm.num <= MAGMA_STOPS[i + 1].pos * norm.den
    THEN i
    ELSE StopIndex(norm, i + 1)

interpolate_magma_color(norm) ==
    LET i == StopIndex(norm, 1)
    IN IF i = 0 THEN MAGMA_STOPS[Len(MAGMA_STOPS)].color
       ELSE LET c1 == MAGMA_STOPS[i].color
                c2 == MAGMA_STOPS[i + 1].color
                tnum == 4 * norm.num - MAGMA_STOPS[i].pos * norm.den
                tden == (MAGMA_STOPS[i + 1].pos - MAGMA_STOPS[i].pos) * norm.den
            IN << Blend(c1[1], c2[1], tnum, tden),
                  Blend(c1[2], c2[2], tnum, tden),
                  Blend(c1[3], c2[3], tnum, tden) >>

\* variant: coinciding percentiles are left as they are
calculate_colors_NoWiden(vals) ==
    LET valid == ValidValues(vals)
    IN IF Len(valid) = 0
       THEN [colors |-> [i \in 1 .. Len(vals) |-> MISSING_COLOR], p2 |-> 0, p98 |-> 0]
       ELSE LET p2 == NanPercentile(valid, 2)
                p98 == NanPercentile(valid, 98)
                ColorOf(c) ==
                    IF c.nan THEN MISSING_COLOR
                    ELSE LET rgb == interpolate_magma_color(
                                        ClipUnit(100 * c.v - p2, p98 - p2))
                         IN <<rgb[1], rgb[2], rgb[3], VALID_ALPHA>>
            IN [colors |-> [i \in 1 .. Len(vals) |-> ColorOf(vals[i])],
                p2 |-> p2, p98 |-> p98]

\* variant: a missing value gets the opacity of the valid ones
calculate_colors_OpaqueMissing(vals) ==
    LET valid == ValidValues(vals)
    IN IF Len(valid) = 0
       THEN [colors |-> [i \in 1 .. Len(vals) |-> MISSING_COLOR], p2 |-> 0, p98 |-> 0]
       ELSE LET p2 == NanPercentile(valid, 2)
                raw98 == NanPercentile(valid, 98)
                p98 == IF raw98 = p2 THEN p2 + 100 ELSE raw98
                ColorOf(c) ==
                    IF c.nan THEN <<128, 128, 128, VALID_ALPHA>>
                    ELSE LET rgb == interpolate_magma_color(
                                        ClipUnit(100 * c.v - p2, p98 - p2))
                         IN <<rgb[1], rgb[2], rgb[3], VALID_ALPHA>>
            IN [colors |-> [i \in 1 .. Len(vals) |-> ColorOf(vals[i])],
                p2 |-> p2, p98 |-> p98]

\* calculate_colors(values): the colours and the two clip bounds (hundredths)
calculate_colors(vals) ==
    LET valid == ValidValues(vals)
    IN IF Len(valid) = 0
       THEN [colors |-> [i \in 1 .. Len(vals) |-> MISSING_COLOR], p2 |-> 0, p98 |-> 0]
       ELSE LET p2 == NanPercentile(valid, 2)
                raw98 == NanPercentile(valid, 98)
                p98 == IF raw98 = p2 THEN p2 + 100 ELSE raw98
                ColorOf(c) ==
                    IF c.nan THEN MISSING_COLOR
                    ELSE LET rgb == interpolate_magma_color(
                                        ClipUnit(100 * c.v - p2, p98 - p2))
                         IN <<rgb[1], rgb[2], rgb[3], VALID_ALPHA>>
            IN [colors |-> [i \in 1 .. Len(vals) |-> ColorOf(vals[i])],
                p2 |-> p2, p98 |-> p98]

\* the argument is any array of at most MaxValues cells (the empty one too)
InitColors ==
    /\ WidgetUnloaded
    /\ NoAggregateCall
    /\ NoGeojsonCall
    /\ NoDeltaCall
    /\ \E len \in 0 .. MaxValues : values \in [1 .. len -> CellValues]
    /\ colors = NoValue

\* colors, p2, p98 = calculate_colors(values)
CalculateColors ==
    /\ colors = NoValue
    /\ colors' = calculate_colors(values)
    /\ UNCHANGED <<widgetVars, aggregateVars, values, geojsonVars, deltaVars>>

NextColors == CalculateColors

SpecColors == InitColors /\ [][NextColors]_vars

(***************************************************************************)
(* pages/parcel_map.py: build_geojson_maplibre (with colors_to_css).       *)
(* A row has its geometry cell, its identifiers and its metric value.      *)
(***************************************************************************)
\* the 'geom_4326_geojson' cell: a GeoJSON text, a text json.loads rejects
\* (JSONDecodeError) or None (TypeError)
GeomCells == {"geojson", "malformed", "None"}

\* the overlay types a load is built for
OverlayTypes == {"parcels", "area_plans"}

\* the label of row i (address or area name), distinct from its parcel id
LabelOf(i) == 200 + i

\* row i (from 0) of the data frame
MkRow(i, geom, metric) ==
    [geom |-> geom,
     site_parcel_id |-> FeatureKey(i),
     label |-> LabelOf(i),
     metric |-> metric]

\* colors_to_css: rgba(r,g,b,a/255 with two decimals), the alpha in hundredths
ColorToCss(c) ==
    [r |-> c[1], g |-> c[2], b |-> c[3], alpha |-> (c[4] * 200 + 255) \div 510]

\* variant: a feature is numbered by its position among the emitted features
RECURSIVE EmitFeatures_OutputIndex(_, _, _, _, _)
EmitFeatures_OutputIndex(rows, overlay_type, css_colors, i, features) ==
    IF i > Len(rows) - 1 THEN features
    ELSE LET row == rows[i + 1]
         IN IF row.geom # "geojson"
            THEN EmitFeatures_OutputIndex(rows, overlay_type, css_colors, i + 1,
                                          features)
            ELSE EmitFeatures_OutputIndex(rows, overlay_type, css_colors, i + 1,
                    Append(features,
                        [id |-> Len(features),
                         properties |->
                            [feature_id |-> IF overlay_type = "parcels"
                                            THEN row.site_parcel_id ELSE row.label,
                             overlay_type |-> overlay_type,
                             fillColor |-> css_colors[i + 1]]]))

\* variant: a feature takes the colour at its position among the emitted
\* features
RECURSIVE EmitFeatures_ColorByOutput(_, _, _, _, _)
EmitFeatures_ColorByOutput(rows, overlay_type, css_colors, i, features) ==
    IF i > Len(rows) - 1 THEN features
    ELSE LET row == rows[i + 1]
         IN IF row.geom # "geojson"
            THEN EmitFeatures_ColorByOutput(rows, overlay_type, css_colors, i + 1,
                                            features)
            ELSE EmitFeatures_ColorByOutput(rows, overlay_type, css_colors, i + 1,
                    Append(features,
                        [id |-> i,
                         properties |->
                            [feature_id |-> IF overlay_type = "parcels"
                                            THEN row.site_parcel_id ELSE row.label,
                             overlay_type |-> overlay_type,
                             fillColor |-> css_colors[Len(features) + 1]]]))

\* the loop over enumerate(df.iterrows()), from row i on
RECURSIVE EmitFeatures(_, _, _, _, _)
EmitFeatures(rows, overlay_type, css_colors, i, features) ==
    IF i > Len(rows) - 1 THEN features
    ELSE LET row == rows[i + 1]
         IN IF row.geom # "geojson"
            THEN \* json.loads raised: continue
                 EmitFeatures(rows, overlay_type, css_colors, i + 1, features)
            ELSE EmitFeatures(rows, overlay_type, css_colors, i + 1,
                    Append(features,
                        [id |-> i,
                         properties |->
                            [feature_id |-> IF overlay_type = "parcels"
                                            THEN row.site_parcel_id ELSE row.label,
                             overlay_type |-> overlay_type,
                             fillColor |-> css_colors[i + 1]]]))

build_geojson_maplibre(rows, overlay_type) ==
    LET computed == calculate_colors([i \in 1 .. Len(rows) |-> rows[i].metric])
        css_colors == [i \in 1 .. Len(rows) |-> ColorToCss(computed.colors[i])]
    IN [features |-> EmitFeatures(rows, overlay_type, css_colors, 0, <<>>),
        p2 |-> computed.p2,
        p98 |-> computed.p98]

\* the metric values of the rows of a data frame
RowMetrics == {NaN, Num(0), Num(20)}

\* the data frame has at most MaxRows rows (none too), of any geometry cell
InitGeojson ==
    /\ WidgetUnloaded
    /\ NoAggregateCall
    /\ NoColorsCall
    /\ NoDeltaCall
    /\ \E len \in 0 .. MaxRows :
          \E g \in [1 .. len -> GeomCells] :
             \E m \in [1 .. len -> RowMetrics] :
                \E t \in OverlayTypes :
                   df = [rows |-> [i \in 1 .. len |-> MkRow(i - 1, g[i], m[i])],
                         overlay_type |-> t]
    /\ geojson = NoValue

\* geojson_data, p2, p98 = build_geojson_maplibre(df, metric, overlay_type)
BuildGeojson ==
    /\ geojson = NoValue
    /\ geojson' = build_geojson_maplibre(df.rows, df.overlay_type)
    /\ UNCHANGED <<widgetVars, aggregateVars, colorVars, df, deltaVars>>

NextGeojson == BuildGeojson

SpecGeojson == InitGeojson /\ [][NextGeojson]_vars

(***************************************************************************)
(* pages/parcel_map.py: calculate_metric_delta, with format_currency and   *)
(* format_number of utils/formatters.py.  A number is kept in hundredths;  *)
(* a formatted text is kept as its parts.                                  *)
(***************************************************************************)
PyNone == [none |-> TRUE]

\* val is None or pd.isna(val)
IsMissing(c) == c = PyNone \/ c.nan

\* the values (in hundredths) a metric of a feature or an aggregate is drawn
\* from: missing, zero, fractions and a negative number
DeltaCells == {PyNone, NaN, Num(0), Num(50), Num(149), Num(150), Num(-250)}

\* the 'type' / 'decimals' pairs of COMPARISON_METRICS, and the two fallbacks
MetricConfigs ==
    { [type |-> "currency", decimals |-> 0],
      [type |-> "currency", decimals |-> 2],
      [type |-> "area", decimals |-> 0],
      [type |-> "number", decimals |-> 2],
      [type |-> "number", decimals |-> 0],
      [type |-> "other", decimals |-> 0] }

NotAvailable == [text |-> "N/A"]

\* |h| hundredths rounded to units, a tie to the even unit (float formatting)
RoundUnits(h) ==
    LET a == IF h < 0 THEN 0 - h ELSE h
        q == a \div 100
        r == a % 100
    IN IF r > 50 \/ (r = 50 /\ q % 2 = 1) THEN q + 1 ELSE q

\* f"{value:,.{decimals}f}": the minus sign and the digits at that precision
FixedPoint(h, decimals) ==
    [negative |-> h < 0,
     digits |-> IF decimals = 0 THEN RoundUnits(h)
                ELSE IF h < 0 THEN 0 - h ELSE h,
     decimals |-> decimals]

\* format_currency(value) of a number
format_currency(h) ==
    [text |-> "number", currency |-> TRUE, grouped |-> TRUE,
     number |-> FixedPoint(h, 0), suffix |-> ""]

\* format_number(value, decimals) of a number
format_number(h, decimals) ==
    [text |-> "number", currency |-> FALSE, grouped |-> TRUE,
     number |-> FixedPoint(h, decimals), suffix |-> ""]

\* the sign prefix put before a formatted text
Signed(sign, formatted) == [sign |-> sign, body |-> formatted]

\* variant: the operands are tested for truth, so 0 counts as missing
calculate_metric_delta_Falsy(val1, val2, metric_config) ==
    IF IsMissing(val1) \/ IsMissing(val2) \/ val1.v = 0 \/ val2.v = 0
    THEN NotAvailable
    ELSE LET d == val2.v - val1.v
             decimals == metric_config.decimals
             sign == IF d > 0 THEN "+" ELSE ""
         IN IF metric_config.type = "currency"
            THEN IF decimals = 0
                 THEN Signed(sign, format_currency(d))
                 ELSE Signed(sign, [text |-> "number", currency |-> TRUE,
                                    grouped |-> FALSE,
                                    number |-> FixedPoint(d, decimals),
                                    suffix |-> ""])
            ELSE IF metric_config.type = "area"
            THEN Signed(sign, [format_number(d, decimals) EXCEPT !.suffix = " sq ft"])
            ELSE IF metric_config.type = "number"
            THEN IF decimals = 0
                 THEN Signed(sign, format_number(d, decimals))
                 ELSE Signed(sign, [text |-> "number", currency |-> FALSE,
                                    grouped |-> FALSE,
                                    number |-> FixedPoint(d, decimals),
                                    suffix |-> ""])
            ELSE Signed(sign, [text |-> "number", currency |-> FALSE,
                               grouped |-> FALSE,
                               number |-> FixedPoint(d, 2),
                               suffix |-> ""])

calculate_metric_delta(val1, val2, metric_config) ==
    IF IsMissing(val1) \/ IsMissing(val2)
    THEN NotAvailable
    ELSE LET d == val2.v - val1.v
             decimals == metric_config.decimals
             sign == IF d > 0 THEN "+" ELSE ""
         IN IF metric_config.type = "currency"
            THEN IF decimals = 0
                 THEN Signed(sign, format_currency(d))
                 ELSE Signed(sign, [text |-> "number", currency |-> TRUE,
                                    grouped |-> FALSE,
                                    number |-> FixedPoint(d, decimals),
                                    suffix |-> ""])
            ELSE IF metric_config.type = "area"
            THEN Signed(sign, [format_number(d, decimals) EXCEPT !.suffix = " sq ft"])
            ELSE IF metric_config.type = "number"
            THEN IF decimals = 0
                 THEN Signed(sign, format_number(d, decimals))
                 ELSE Signed(sign, [text |-> "number", currency |-> FALSE,
                                    grouped |-> FALSE,
                                    number |-> FixedPoint(d, decimals),
                                    suffix |-> ""])
            ELSE \* f"{sign}{delta}": the number as str() prints it
                 Signed(sign, [text |-> "number", currency |-> FALSE,
                               grouped |-> FALSE,
                               number |-> FixedPoint(d, 2),
                               suffix |-> ""])

InitDelta ==
    /\ WidgetUnloaded
    /\ NoAggregateCall
    /\ NoColorsCall
    /\ NoGeojsonCall
    /\ deltaArgs \in [val1 : DeltaCells, val2 : DeltaCells,
                      metric_config : MetricConfigs]
    /\ delta = NoValue

\* delta = calculate_metric_delta(val1, val2, metric)
CalculateMetricDelta ==
    /\ delta = NoValue
    /\ delta' = calculate_metric_delta(deltaArgs.val1, deltaArgs.val2,
                                       deltaArgs.metric_config)
    /\ UNCHANGED <<widgetVars, aggregateVars, colorVars, geojsonVars, deltaArgs>>

NextDelta == CalculateMetricDelta

SpecDelta == InitDelta /\ [][NextDelta]_vars

TypeOK ==
    /\ selectionMode \in Modes
    /\ groupModeState \in GroupStates
    /\ Len(selectedFeatures) \in 0 .. NumFeatures
    /\ DOMAIN featureState = Rows

(***************************************************************************)
(* Properties                                                              *)
(***************************************************************************)
KeyOf(n) == data[n].properties.feature_id
TypeOf(n) == data[n].properties.overlay_type
EntryOf(n) == BuildFeatureObject(data[n].properties)
ClickEvent(n) == Event("click", data[n].id, "none")
Without(arr, key) == SelectSeq(arr, LAMBDA e : e.id # key)
NoFeatureMarked(fs) ==
    \A i \in Rows : ~ fs[i].selected /\ fs[i].groupMembership = "null"

\* C1: in individual mode the selection never holds more than 2 entries, and
\* a click that adds a feature to a full set removes exactly the entry that
\* was selected first, keeps the other one and appends the new entry last.
C1_FifoEviction ==
    /\ [](Len(selectedFeatures) <= 2)
    /\ [][\A n \in 1 .. Len(data) :
            ( /\ selectionMode = "individual"
              /\ lastEvent' = ClickEvent(n)
              /\ Len(selectedFeatures) = 2
              /\ KeyOf(n) \notin Ids(selectedFeatures)
              /\ KeyOf(n) \in Ids(selectedFeatures') )
            => selectedFeatures' = <<selectedFeatures[2], EntryOf(n)>>]_vars

\* a click on a third feature found a full set and was accepted
C1_Witness ==
    /\ selectionMode = "individual"
    /\ lastEvent.type = "click"
    /\ before.selectionMode = "individual"
    /\ before.selected = 2
    /\ Len(selectedFeatures) = 2
    /\ selectedFeatures[2].id = FeatureKey(lastEvent.row)

\* C2: in individual mode a click on a selected feature removes exactly that
\* entry (size - 1, the other entry kept, nothing evicted), and the next click
\* on the same feature puts it back as the last entry.
C2_DeselectReselect ==
    /\ [][\A n \in 1 .. Len(data) :
            ( /\ selectionMode = "individual"
              /\ lastEvent' = ClickEvent(n)
              /\ KeyOf(n) \in Ids(selectedFeatures) )
            => /\ selectedFeatures' = Without(selectedFeatures, KeyOf(n))
               /\ Len(selectedFeatures') = Len(selectedFeatures) - 1]_vars
    /\ [][\A n \in 1 .. Len(data) :
            ( /\ selectionMode = "individual"
              /\ before.selectionMode = "individual"
              /\ lastEvent = ClickEvent(n)
              /\ before.selected = Len(selectedFeatures) + 1
              /\ lastEvent' = ClickEvent(n) )
            => /\ Len(selectedFeatures') = Len(selectedFeatures) + 1
               /\ selectedFeatures'[Len(selectedFeatures')] = EntryOf(n)
               /\ SubSeq(selectedFeatures', 1, Len(selectedFeatures)) =
                      selectedFeatures]_vars

\* the first of two selected features has just been deselected by a click
C2_Witness ==
    /\ selectionMode = "individual"
    /\ lastEvent.type = "click"
    /\ before.selectionMode = "individual"
    /\ before.selected = 2
    /\ Len(selectedFeatures) = 1
    /\ FeatureKey(lastEvent.row) < selectedFeatures[1].id
    /\ ~ featureState[lastEvent.row].selected

\* C3: in individual mode a click on a feature whose overlay type differs
\* from the type of the non-empty selection changes nothing (set, visual
\* state, host value); so all entries of the set share one overlay type.
C3_TypeMismatchRejected ==
    /\ [](\A i, j \in 1 .. Len(selectedFeatures) :
             selectedFeatures[i].overlay_type = selectedFeatures[j].overlay_type)
    /\ [][\A n \in 1 .. Len(data) :
            ( /\ selectionMode = "individual"
              /\ lastEvent' = ClickEvent(n)
              /\ Len(selectedFeatures) > 0
              /\ TypeOf(n) # selectedFeatures[1].overlay_type )
            => UNCHANGED <<selectedFeatures, featureState, hostValue>>]_vars

\* the last click was on a feature of another type than the selection's
C3_Witness ==
    /\ selectionMode = "individual"
    /\ lastEvent.type = "click"
    /\ before.selectionMode = "individual"
    /\ before.selected = 2
    /\ Len(selectedFeatures) = 2
    /\ data[lastEvent.row + 1].properties.overlay_type #
           selectedFeatures[1].overlay_type
    /\ ~ featureState[lastEvent.row].selected

\* C4: in group mode a RESET in SELECTING_G1, SELECTING_G2 or COMPLETE ends
\* in SELECTING_G1 with both working groups empty, both confirmed groups null
\* and no feature marked selected or tagged with a group.
C4_ResetRestarts ==
    [][( /\ selectionMode = "group"
         /\ groupModeState \in {"SELECTING_G1", "SELECTING_G2", "COMPLETE"}
         /\ lastEvent'.type = "RESET" )
       => /\ groupModeState' = "SELECTING_G1"
          /\ group1Features' = <<>>
          /\ group2Features' = <<>>
          /\ confirmedGroup1' = Null
          /\ confirmedGroup2' = Null
          /\ NoFeatureMarked(featureState')]_vars

\* a RESET that found COMPLETE with both groups filled
C4_Witness ==
    /\ lastEvent.type = "RESET"
    /\ before.selectionMode = "group"
    /\ before.groupModeState = "COMPLETE"
    /\ before.group1 > 0
    /\ before.group2 > 0
    /\ groupModeState = "SELECTING_G1"

\* C5: while the machine is COMPLETE a map click changes neither working
\* group, neither confirmed group, the membership map nor any visual state.
C5_CompleteIgnoresClicks ==
    [][( /\ selectionMode = "group"
         /\ groupModeState = "COMPLETE"
         /\ lastEvent'.type = "click" )
       => UNCHANGED <<group1Features, group2Features, confirmedGroup1,
                      confirmedGroup2, featureGroupMap, featureState>>]_vars

\* C6: a switch to the other mode clears the individual set, both working
\* groups and both confirmed snapshots; the machine ends in IDLE after a
\* switch to individual and in SELECTING_G1 after a switch to group.
C6_SwitchClears ==
    [][( /\ lastEvent'.type = "switch"
         /\ lastEvent'.mode # selectionMode )
       => /\ selectionMode' = lastEvent'.mode
          /\ selectedFeatures' = <<>>
          /\ group1Features' = <<>>
          /\ group2Features' = <<>>
          /\ confirmedGroup1' = Null
          /\ confirmedGroup2' = Null
          /\ groupModeState' = IF lastEvent'.mode = "individual"
                               THEN "IDLE" ELSE "SELECTING_G1"]_vars

\* C7: a switch from individual to group with a non-empty individual set
\* empties the set, unmarks every feature that was selected and leaves the
\* machine in SELECTING_G1 with both working groups empty.
C7_SwitchToGroup ==
    [][( /\ selectionMode = "individual"
         /\ Len(selectedFeatures) > 0
         /\ lastEvent' = Event("switch", -1, "group") )
       => /\ selectedFeatures' = <<>>
          /\ \A n \in 1 .. Len(data) :
                KeyOf(n) \in Ids(selectedFeatures)
                    => ~ featureState'[data[n].id].selected
          /\ NoFeatureMarked(featureState')
          /\ groupModeState' = "SELECTING_G1"
          /\ group1Features' = <<>>
          /\ group2Features' = <<>>]_vars

\* a switch to group that found two selected features
C7_Witness ==
    /\ lastEvent = Event("switch", -1, "group")
    /\ before.selectionMode = "individual"
    /\ before.selected = 2
    /\ selectionMode = "group"

\* C8: in SELECTING_G2 a click on a feature of confirmed Group 1 changes
\* neither working list, the membership map nor any visual state; the feature
\* stays tagged group1.
C8_Group1MemberRejected ==
    [][\A n \in 1 .. Len(data) :
          ( /\ selectionMode = "group"
            /\ groupModeState = "SELECTING_G2"
            /\ confirmedGroup1 # Null
            /\ KeyOf(n) \in Ids(confirmedGroup1.features)
            /\ lastEvent' = ClickEvent(n) )
          => /\ UNCHANGED <<group1Features, group2Features, featureGroupMap,
                            featureState>>
             /\ featureState'[data[n].id].groupMembership = "group1"]_vars

\* the last click, in SELECTING_G2 with Group 2 = [C], was on a feature of
\* confirmed Group 1
C8_Witness ==
    /\ selectionMode = "group"
    /\ groupModeState = "SELECTING_G2"
    /\ lastEvent.type = "click"
    /\ before.groupModeState = "SELECTING_G2"
    /\ confirmedGroup1 # Null
    /\ FeatureKey(lastEvent.row) \in Ids(confirmedGroup1.features)
    /\ Len(group2Features) = 1

\* C9: no feature id is in both working lists, and once both groups are
\* confirmed no feature id is in both confirmed snapshots.
C9_GroupsDisjoint ==
    /\ Ids(group1Features) \cap Ids(group2Features) = {}
    /\ (confirmedGroup1 # Null /\ confirmedGroup2 # Null)
          => Ids(confirmedGroup1.features) \cap Ids(confirmedGroup2.features) = {}

\* both groups confirmed, two features in Group 1 and one in Group 2
C9_Witness ==
    /\ groupModeState = "COMPLETE"
    /\ confirmedGroup1 # Null
    /\ confirmedGroup2 # Null
    /\ Len(confirmedGroup1.features) = 2
    /\ Len(confirmedGroup2.features) = 1
    /\ Len(group2Features) = 1

C11_EveryChangePushed ==
    /\ [][selectedFeatures' # selectedFeatures
            => /\ Len(pushed') >= 1
               /\ hostValue' = IndividualValue(selectedFeatures')]_vars
    /\ []((loaded /\ hostValue.kind = "individual")
            => Ids(hostValue.features) \subseteq Ids(selectedFeatures))

\* C12: once the map has loaded, whenever the mode is individual the value
\* held by the host is the current individual selection, entry for entry in
\* the same order.
C12_HostHoldsIndividualSet ==
    (loaded /\ selectionMode = "individual")
        => hostValue = IndividualValue(selectedFeatures)

\* a switch back to individual mode, taken in COMPLETE with both groups filled,
\* pushed the empty individual selection
C12_Witness ==
    /\ loaded
    /\ selectionMode = "individual"
    /\ lastEvent = Event("switch", -1, "individual")
    /\ before.groupModeState = "COMPLETE"
    /\ before.group2 > 0
    /\ Len(pushed) = 1
    /\ hostValue = IndividualValue(<<>>)

\* C13: a CONFIRM that finds the active group empty (Group 1 in SELECTING_G1,
\* Group 2 in SELECTING_G2) changes nothing: the machine state, both working
\* groups, both confirmed snapshots, the visual state and the host value stay
\* as they were, and nothing is pushed.
C13_ConfirmEmptyIsNoOp ==
    [][( /\ lastEvent'.type = "CONFIRM"
         /\ \/ groupModeState = "SELECTING_G1" /\ Len(group1Features) = 0
            \/ groupModeState = "SELECTING_G2" /\ Len(group2Features) = 0 )
       => /\ UNCHANGED <<groupModeState, group1Features, group2Features,
                         confirmedGroup1, confirmedGroup2, featureGroupMap,
                         featureState, ui, hostValue>>
          /\ pushed' = <<>>]_vars

\* a CONFIRM was pressed in SELECTING_G2 while Group 2 was empty
C13_Witness ==
    /\ lastEvent.type = "CONFIRM"
    /\ before.selectionMode = "group"
    /\ before.groupModeState = "SELECTING_G2"
    /\ before.group2 = 0
    /\ groupModeState = "SELECTING_G2"
    /\ confirmedGroup1 # Null
    /\ confirmedGroup2 = Null

\* C14: a CONFIRM in SELECTING_G1 with a non-empty Group 1 moves the machine
\* to SELECTING_G2 and makes confirmed Group 1 a copy of exactly the entries
\* of Group 1; a CONFIRM in SELECTING_G2 with a non-empty Group 2 moves it to
\* COMPLETE and makes confirmed Group 2 a copy of Group 2; so confirming two
\* features and then one gives the counts 2 and 1.
C14_ConfirmSnapshots ==
    /\ [][( /\ lastEvent'.type = "CONFIRM"
            /\ groupModeState = "SELECTING_G1"
            /\ Len(group1Features) > 0 )
          => /\ groupModeState' = "SELECTING_G2"
             /\ confirmedGroup1' # Null
             /\ confirmedGroup1'.features = group1Features
             /\ confirmedGroup2' = Null]_vars
    /\ [][( /\ lastEvent'.type = "CONFIRM"
            /\ groupModeState = "SELECTING_G2"
            /\ Len(group2Features) > 0 )
          => /\ groupModeState' = "COMPLETE"
             /\ confirmedGroup2' # Null
             /\ confirmedGroup2'.features = group2Features
             /\ confirmedGroup1' = confirmedGroup1]_vars
    /\ [][( /\ lastEvent'.type = "CONFIRM"
            /\ groupModeState = "SELECTING_G2"
            /\ Len(group1Features) = 2
            /\ Len(group2Features) = 1 )
          => /\ GroupPart(confirmedGroup1').aggregate.count = 2
             /\ GroupPart(confirmedGroup2').aggregate.count = 1]_vars

\* Group 2 = [C] has just been confirmed after Group 1 = [A, B]
C14_Witness ==
    /\ lastEvent.type = "CONFIRM"
    /\ before.groupModeState = "SELECTING_G2"
    /\ before.group1 = 2
    /\ before.group2 = 1
    /\ groupModeState = "COMPLETE"
    /\ Len(confirmedGroup1.features) = 2
    /\ confirmedGroup2.features = group2Features

\* C15: a confirmed snapshot is not changed by a later map click, CONFIRM or
\* COMPARE; it changes only by becoming null, and only on a RESET or a mode
\* switch. The confirmation of Group 1 keeps the working list of Group 1.
C15_SnapshotImmutable ==
    /\ [][( /\ confirmedGroup1 # Null
            /\ lastEvent'.type \in {"click", "CONFIRM", "COMPARE"} )
          => confirmedGroup1' = confirmedGroup1]_vars
    /\ [][( /\ confirmedGroup2 # Null
            /\ lastEvent'.type \in {"click", "CONFIRM", "COMPARE"} )
          => confirmedGroup2' = confirmedGroup2]_vars
    /\ [][( /\ confirmedGroup1 # Null
            /\ confirmedGroup1' # confirmedGroup1 )
          => /\ confirmedGroup1' = Null
             /\ lastEvent'.type \in {"RESET", "switch"}]_vars
    /\ [][( /\ confirmedGroup2 # Null
            /\ confirmedGroup2' # confirmedGroup2 )
          => /\ confirmedGroup2' = Null
             /\ lastEvent'.type \in {"RESET", "switch"}]_vars
    /\ [][( /\ confirmedGroup1 = Null
            /\ confirmedGroup1' # Null )
          => /\ group1Features' = group1Features
             /\ Len(group1Features') > 0]_vars

\* a map click handled after both confirmations left the snapshot of Group 2
\* as it was although the working list of Group 2 has changed
C15_Witness ==
    /\ lastEvent.type = "click"
    /\ before.groupModeState = "COMPLETE"
    /\ groupModeState = "COMPLETE"
    /\ confirmedGroup1 # Null
    /\ confirmedGroup2 # Null
    /\ Len(group2Features) # before.group2
    /\ Len(confirmedGroup2.features) = before.group2

\* the sum of a metric over the first k entries of a list
RECURSIVE SumTo(_, _, _)
SumTo(list, field, k) ==
    IF k = 0 THEN 0 ELSE SumTo(list, field, k - 1) + list[k].properties[field]

Total(field) == SumTo(aggFeatures, field, Len(aggFeatures))

\* the fraction q is the quotient n / d (d > 0)
IsQuotient(q, n, d) == q.den > 0 /\ q.num * d = n * q.den

\* C16: for every non-empty list of features the aggregate has count = the
\* number of features, total_value, land_value, lot_size and net_taxes equal to
\* the sums over the features, net_taxes_per_sqft = sum(net_taxes) /
\* sum(lot_size) and land_value_per_sqft = sum(land_value) / sum(lot_size) when
\* the summed lot_size is positive, and alignment_index = the unweighted mean
\* of the features' alignment_index.
C16_AggregateValues ==
    (aggregate # NoValue /\ Len(aggFeatures) > 0)
        => /\ aggregate # Null
           /\ aggregate.count = Len(aggFeatures)
           /\ aggregate.total_value = Total("total_value")
           /\ aggregate.land_value = Total("land_value")
           /\ aggregate.lot_size = Total("lot_size")
           /\ aggregate.net_taxes = Total("net_taxes")
           /\ Total("lot_size") > 0
                 => /\ IsQuotient(aggregate.net_taxes_per_sqft,
                                  Total("net_taxes"), Total("lot_size"))
                    /\ IsQuotient(aggregate.land_value_per_sqft,
                                  Total("land_value"), Total("lot_size"))
           /\ IsQuotient(aggregate.alignment_index,
                         Total("alignment_index"), Len(aggFeatures))

\* the aggregate of lot sizes [1000, 2000] and net taxes [100, 300] has been
\* computed: 400 / 3000 = 2 / 15, with a mean alignment of 1 / 2
C16_Witness ==
    /\ aggregate # NoValue
    /\ Len(aggFeatures) = 2
    /\ aggFeatures[1].properties.lot_size = 1000
    /\ aggFeatures[2].properties.lot_size = 2000
    /\ aggFeatures[1].properties.net_taxes = 100
    /\ aggFeatures[2].properties.net_taxes = 300
    /\ aggregate.net_taxes_per_sqft = [num |-> 2, den |-> 15]
    /\ aggregate.alignment_index = [num |-> 1, den |-> 2]

\* C17: for a group whose summed lot_size is 0 the aggregate's
\* net_taxes_per_sqft and land_value_per_sqft are both 0, and no quotient of
\* an aggregate is taken with a zero divisor.
C17_ZeroLotSize ==
    (aggregate # NoValue /\ Len(aggFeatures) > 0)
        => /\ Total("lot_size") = 0
                 => /\ aggregate.net_taxes_per_sqft = Zero
                    /\ aggregate.land_value_per_sqft = Zero
           /\ aggregate.net_taxes_per_sqft.den # 0
           /\ aggregate.land_value_per_sqft.den # 0
           /\ aggregate.alignment_index.den # 0

\* the aggregate of two features without lot size but with taxes and land
\* value has been computed
C17_Witness ==
    /\ aggregate # NoValue
    /\ Len(aggFeatures) = 2
    /\ aggregate.lot_size = 0
    /\ aggregate.net_taxes > 0
    /\ aggregate.land_value > 0
    /\ aggregate.net_taxes_per_sqft = Zero
    /\ aggregate.land_value_per_sqft = Zero

\* C18: the features and the aggregate of each group in the payload of a
\* COMPARE are those of the list the group held when it was confirmed,
\* whatever map clicks were handled between the confirmation and the COMPARE.
C18_PayloadIsAsConfirmed ==
    [][( /\ selectionMode = "group"
         /\ groupModeState = "COMPLETE"
         /\ lastEvent'.type = "COMPARE" )
       => /\ heldAtConfirm.group1 # Null
          /\ heldAtConfirm.group2 # Null
          /\ hostValue'.kind = "group"
          /\ hostValue'.group1 # Null
          /\ hostValue'.group2 # Null
          /\ hostValue'.group1.features = heldAtConfirm.group1.features
          /\ hostValue'.group2.features = heldAtConfirm.group2.features
          /\ hostValue'.group1.aggregate =
                 CalculateGroupAggregate(heldAtConfirm.group1.features)
          /\ hostValue'.group2.aggregate =
                 CalculateGroupAggregate(heldAtConfirm.group2.features)]_vars

\* a COMPARE pushed the payload after a click had changed the working list of
\* Group 2 since its confirmation
C18_Witness ==
    /\ lastEvent.type = "COMPARE"
    /\ before.groupModeState = "COMPLETE"
    /\ hostValue.kind = "group"
    /\ Len(pushed) = 1
    /\ heldAtConfirm.group2 # Null
    /\ Len(group2Features) # Len(heldAtConfirm.group2.features)
    /\ hostValue.group2.aggregate.count = Len(heldAtConfirm.group2.features)

\* the overlay types of the entries of both working lists
GroupTypes ==
    { group1Features[i].overlay_type : i \in 1 .. Len(group1Features) }
        \cup { group2Features[i].overlay_type : i \in 1 .. Len(group2Features) }

\* C19: all entries of the working lists of Group 1 and Group 2 together have
\* one overlay type, and a group-mode click on a feature whose type differs
\* from the type established by either group changes neither the groups, the
\* machine state, the visual state nor the host value.
C19_GroupsOneType ==
    /\ [](Cardinality(GroupTypes) <= 1)
    /\ [][\A n \in 1 .. Len(data) :
            ( /\ selectionMode = "group"
              /\ lastEvent' = ClickEvent(n)
              /\ GroupTypes # {}
              /\ TypeOf(n) \notin GroupTypes )
            => /\ UNCHANGED <<group1Features, group2Features, confirmedGroup1,
                              confirmedGroup2, featureGroupMap, groupModeState,
                              featureState, ui, hostValue>>
               /\ pushed' = <<>>]_vars

\* in SELECTING_G2, with a feature in each group, the last click was on a
\* feature of another overlay type and left it unmarked
C19_Witness ==
    /\ selectionMode = "group"
    /\ lastEvent.type = "click"
    /\ before.groupModeState = "SELECTING_G2"
    /\ before.group1 > 0
    /\ before.group2 > 0
    /\ Len(group2Features) = before.group2
    /\ data[lastEvent.row + 1].properties.overlay_type \notin GroupTypes
    /\ ~ featureState[lastEvent.row].selected

\* C20: with feature ids unique within the load, after every handled event a
\* feature is marked selected exactly when it is in the individual set or in
\* one of the two working groups, and its group tag is group1 / group2 exactly
\* when it is in that working group and null otherwise.
C20_VisualMatchesModel ==
    \A n \in 1 .. Len(data) :
        LET mark == featureState[data[n].id]
            in1 == KeyOf(n) \in Ids(group1Features)
            in2 == KeyOf(n) \in Ids(group2Features)
        IN /\ mark.selected <=> (KeyOf(n) \in Ids(selectedFeatures) \/ in1 \/ in2)
           /\ mark.groupMembership = "group1" <=> in1
           /\ mark.groupMembership = "group2" <=> in2
           /\ mark.groupMembership = "null" <=> (~ in1 /\ ~ in2)

\* a click has just removed a feature from Group 2 while another feature stays
\* marked and tagged in Group 1
C20_Witness ==
    /\ selectionMode = "group"
    /\ lastEvent.type = "click"
    /\ before.groupModeState = "SELECTING_G2"
    /\ before.group2 = 1
    /\ group2Features = <<>>
    /\ Len(group1Features) = 1
    /\ featureState[lastEvent.row] = [selected |-> FALSE, groupMembership |-> "null"]
    /\ \E i \in Rows : featureState[i] = [selected |-> TRUE, groupMembership |-> "group1"]

\* C21: after every event handled in group mode the compare button is shown
\* exactly when the machine is COMPLETE (both groups confirmed); otherwise the
\* confirm button is shown, labelled for the active group, and disabled
\* exactly when the working list of the active group is empty.
C21_ButtonsFollowState ==
    (loaded /\ selectionMode = "group")
        => /\ ui.compareShown <=> groupModeState = "COMPLETE"
           /\ ui.compareShown <=> (confirmedGroup1 # Null /\ confirmedGroup2 # Null)
           /\ ui.confirmShown <=> ~ ui.compareShown
           /\ groupModeState = "SELECTING_G1"
                 => /\ ui.confirmText = "Confirm Group 1"
                    /\ ui.confirmDisabled <=> Len(group1Features) = 0
           /\ groupModeState = "SELECTING_G2"
                 => /\ ui.confirmText = "Confirm Group 2"
                    /\ ui.confirmDisabled <=> Len(group2Features) = 0

\* a click has put the first feature into Group 2 and enabled its confirm
\* button
C21_Witness ==
    /\ selectionMode = "group"
    /\ groupModeState = "SELECTING_G2"
    /\ lastEvent.type = "click"
    /\ before.group2 = 0
    /\ Len(group2Features) = 1
    /\ ui = [confirmShown |-> TRUE, compareShown |-> FALSE,
             confirmText |-> "Confirm Group 2", confirmDisabled |-> FALSE]

\* C22: a COMPARE never changes the machine or the selection data: in
\* COMPLETE the machine state, both working groups and both confirmed
\* snapshots stay as they are and only the host value is written; in every
\* other state nothing at all changes.
C22_CompareKeepsState ==
    /\ [][lastEvent'.type = "COMPARE"
            => UNCHANGED <<selectionMode, groupModeState, selectedFeatures,
                           group1Features, group2Features, confirmedGroup1,
                           confirmedGroup2, featureGroupMap, featureState,
                           ui>>]_vars
    /\ [][(lastEvent'.type = "COMPARE" /\ groupModeState # "COMPLETE")
            => /\ hostValue' = hostValue
               /\ pushed' = <<>>]_vars

\* a COMPARE taken in COMPLETE wrote the host value and left the machine in
\* COMPLETE with both working lists as long as before
C22_Witness ==
    /\ lastEvent.type = "COMPARE"
    /\ before.groupModeState = "COMPLETE"
    /\ groupModeState = "COMPLETE"
    /\ Len(group1Features) = before.group1
    /\ Len(group2Features) = before.group2
    /\ before.group1 > 0
    /\ Len(pushed) = 1
    /\ hostValue = pushed[1]

\* the valid cells of the argument and their numbers
ValidCells == { i \in 1 .. Len(values) : ~ values[i].nan }
ValidNumbers == { values[i].v : i \in ValidCells }

\* C23: calculate_colors returns, for every array (the empty one, one of only
\* missing values, one whose 2nd and 98th percentiles coincide), a colour list
\* as long as the array, every colour four channels in 0..255; coinciding
\* percentiles give a high clip bound of low + 1, so the clip range is never
\* degenerate.
C23_ColorsSameLength ==
    colors # NoValue
        => /\ Len(colors.colors) = Len(values)
           /\ \A i \in 1 .. Len(values) :
                 /\ Len(colors.colors[i]) = 4
                 /\ \A ch \in 1 .. 4 : colors.colors[i][ch] \in 0 .. 255
           /\ ValidCells = {} => (colors.p2 = 0 /\ colors.p98 = 0)
           /\ ValidCells # {} => colors.p98 > colors.p2
           /\ \A x \in ValidNumbers :
                 ValidNumbers = {x}
                     => (colors.p2 = 100 * x /\ colors.p98 = 100 * x + 100)

\* the colours of an array of a missing value and the value 10 twice have
\* been computed: both percentiles are 10 and the high bound became 11
C23_Witness ==
    /\ colors # NoValue
    /\ Len(values) = 3
    /\ Cardinality(ValidCells) = 2
    /\ ValidNumbers = {10}
    /\ Len(colors.colors) = 3
    /\ colors.p2 = 1000
    /\ colors.p98 = 1100

\* C24: every missing value gets the gray [128, 128, 128] with opacity 100 and
\* every other value a colour with opacity 180; a value at or below the low
\* clip bound gets the first stop of the ramp and a value at or above the high
\* clip bound the last one.
C24_ColorOfValue ==
    colors # NoValue
        => \A i \in 1 .. Len(values) :
              /\ values[i].nan => colors.colors[i] = <<128, 128, 128, 100>>
              /\ ~ values[i].nan
                    => /\ colors.colors[i][4] = 180
                       /\ 100 * values[i].v <= colors.p2
                             => SubSeq(colors.colors[i], 1, 3) = MAGMA_STOPS[1].color
                       /\ 100 * values[i].v >= colors.p98
                             => SubSeq(colors.colors[i], 1, 3) =
                                    MAGMA_STOPS[Len(MAGMA_STOPS)].color

\* the colours of [missing, 0, 20] have been computed: gray, the first stop
\* and the last stop
C24_Witness ==
    /\ colors # NoValue
    /\ values = <<NaN, Num(0), Num(20)>>
    /\ colors.p2 > 0
    /\ colors.p98 < 2000
    /\ colors.colors = << <<128, 128, 128, 100>>,
                          <<252, 253, 191, 180>>,
                          <<0, 0, 4, 180>> >>

\* the rows (from 1) whose geometry cell json.loads accepts
Parsable == { i \in 1 .. Len(df.rows) : df.rows[i].geom = "geojson" }

\* C25: build_geojson_maplibre drops every row whose geometry cannot be
\* parsed and goes on: the features are exactly the rows with a parsable
\* geometry, in the order of the rows, each with the numeric id of its row
\* index; so the ids are pairwise distinct and there may be fewer features
\* than rows.
C25_UnparsableRowsDropped ==
    geojson # NoValue
        => LET fs == geojson.features
           IN /\ Len(fs) = Cardinality(Parsable)
              /\ Len(fs) <= Len(df.rows)
              /\ { fs[k].id + 1 : k \in 1 .. Len(fs) } = Parsable
              /\ \A k \in 1 .. Len(fs) :
                    fs[k].properties.feature_id =
                        IF df.overlay_type = "parcels"
                        THEN df.rows[fs[k].id + 1].site_parcel_id
                        ELSE df.rows[fs[k].id + 1].label
              /\ \A j, k \in 1 .. Len(fs) : j < k => fs[j].id < fs[k].id

\* three rows were built of which the first has a malformed geometry: the two
\* features carry the ids 1 and 2
C25_Witness ==
    /\ geojson # NoValue
    /\ Len(df.rows) = 3
    /\ df.rows[1].geom = "malformed"
    /\ Len(geojson.features) = 2
    /\ geojson.features[1].id = 1
    /\ geojson.features[2].id = 2

\* an argument of calculate_metric_delta is None or NaN
ArgMissing(c) == c = PyNone \/ c = NaN

\* C26: calculate_metric_delta returns "N/A" only when one of the two values
\* is None or NaN; 0 is a valid operand, a delta of exactly 0 is rendered as a
\* value without '+', and the '+' prefix appears exactly when the delta is
\* positive.
C26_DeltaDisplay ==
    delta # NoValue
        => LET a == deltaArgs.val1
               b == deltaArgs.val2
           IN /\ delta = NotAvailable <=> (ArgMissing(a) \/ ArgMissing(b))
              /\ (~ ArgMissing(a) /\ ~ ArgMissing(b))
                    => /\ delta.body.text = "number"
                       /\ delta.sign = "+" <=> b.v > a.v
                       /\ delta.sign \in {"+", ""}
                       /\ b.v = a.v
                             => /\ delta.sign = ""
                                /\ delta.body.number.digits = 0
                                /\ ~ delta.body.number.negative

\* the delta of 0 and 0 has been formatted as a currency: a value, no sign
C26_Witness ==
    /\ delta # NoValue
    /\ deltaArgs.val1 = Num(0)
    /\ deltaArgs.val2 = Num(0)
    /\ deltaArgs.metric_config = [type |-> "currency", decimals |-> 0]
    /\ delta # NotAvailable
    /\ delta.sign = ""
    /\ delta.body.number.digits = 0

\* the click on row n passes the overlay-type check of group mode
TypeAccepted(n) == GroupTypes = {} \/ TypeOf(n) \in GroupTypes

\* C27: a group-mode click accepted in SELECTING_G1 or SELECTING_G2 toggles
\* the feature in the active working list only: an absent feature is appended
\* (size + 1, nothing evicted, whatever the size), a present one is removed
\* (size - 1); the working list of the other group and both confirmed
\* snapshots are unchanged.
C27_GroupClickToggles ==
    /\ [][\A n \in 1 .. Len(data) :
            ( /\ selectionMode = "group"
              /\ groupModeState = "SELECTING_G1"
              /\ lastEvent' = ClickEvent(n)
              /\ TypeAccepted(n) )
            => /\ group1Features' =
                     IF KeyOf(n) \in Ids(group1Features)
                     THEN Without(group1Features, KeyOf(n))
                     ELSE Append(group1Features, EntryOf(n))
               /\ Len(group1Features') =
                     IF KeyOf(n) \in Ids(group1Features)
                     THEN Len(group1Features) - 1
                     ELSE Len(group1Features) + 1
               /\ UNCHANGED <<group2Features, confirmedGroup1,
                              confirmedGroup2>>]_vars
    /\ [][\A n \in 1 .. Len(data) :
            ( /\ selectionMode = "group"
              /\ groupModeState = "SELECTING_G2"
              /\ lastEvent' = ClickEvent(n)
              /\ TypeAccepted(n)
              /\ KeyOf(n) \notin Ids(confirmedGroup1.features) )
            => /\ group2Features' =
                     IF KeyOf(n) \in Ids(group2Features)
                     THEN Without(group2Features, KeyOf(n))
                     ELSE Append(group2Features, EntryOf(n))
               /\ Len(group2Features') =
                     IF KeyOf(n) \in Ids(group2Features)
                     THEN Len(group2Features) - 1
                     ELSE Len(group2Features) + 1
               /\ UNCHANGED <<group1Features, confirmedGroup1,
                              confirmedGroup2>>]_vars

\* a click has added a third feature to Group 1, beyond the limit of the
\* individual mode, and all three are kept
C27_Witness ==
    /\ selectionMode = "group"
    /\ groupModeState = "SELECTING_G1"
    /\ lastEvent.type = "click"
    /\ before.groupModeState = "SELECTING_G1"
    /\ before.group1 = MAX_SELECTIONS
    /\ Len(group1Features) = MAX_SELECTIONS + 1
    /\ group1Features[Len(group1Features)].id = FeatureKey(lastEvent.row)
    /\ group2Features = <<>>

\* C28: after every handled event, if the mode is group the machine is in
\* SELECTING_G1, SELECTING_G2 or COMPLETE; IDLE is not observable between
\* events of a group-mode session.
C28_NoIdleInGroupMode ==
    selectionMode = "group"
        => groupModeState \in {"SELECTING_G1", "SELECTING_G2", "COMPLETE"}

\* a RESET pressed in SELECTING_G2 has brought the machine back to
\* SELECTING_G1, the mode still being group
C28_Witness ==
    /\ selectionMode = "group"
    /\ lastEvent.type = "RESET"
    /\ before.selectionMode = "group"
    /\ before.groupModeState = "SELECTING_G2"
    /\ groupModeState = "SELECTING_G1"
    /\ group1Features = <<>>

\* C29: the confirmed snapshots match the machine: confirmed Group 1 is
\* non-null exactly in SELECTING_G2 and COMPLETE, confirmed Group 2 exactly in
\* COMPLETE, and a non-null snapshot has at least one feature; COMPLETE is
\* entered only by a CONFIRM in SELECTING_G2, which is entered only by a
\* CONFIRM in SELECTING_G1, and a RESET or a mode switch in between starts
\* over with both snapshots null.
C29_SnapshotsMatchMachine ==
    /\ [](/\ confirmedGroup1 # Null
             <=> groupModeState \in {"SELECTING_G2", "COMPLETE"}
          /\ confirmedGroup2 # Null <=> groupModeState = "COMPLETE"
          /\ confirmedGroup1 # Null => Len(confirmedGroup1.features) >= 1
          /\ confirmedGroup2 # Null => Len(confirmedGroup2.features) >= 1)
    /\ [][(groupModeState # "COMPLETE" /\ groupModeState' = "COMPLETE")
            => (groupModeState = "SELECTING_G2" /\ lastEvent'.type = "CONFIRM")]_vars
    /\ [][(groupModeState # "SELECTING_G2" /\ groupModeState' = "SELECTING_G2")
            => (groupModeState = "SELECTING_G1" /\ lastEvent'.type = "CONFIRM")]_vars
    /\ [][(\/ lastEvent'.type = "RESET"
           \/ lastEvent'.type = "switch" /\ lastEvent'.mode # selectionMode)
            => /\ groupModeState' \in {"IDLE", "SELECTING_G1"}
               /\ confirmedGroup1' = Null
               /\ confirmedGroup2' = Null]_vars

\* the confirmation of Group 2 with two features, after Group 1 with one, has
\* just completed the machine
C29_Witness ==
    /\ groupModeState = "COMPLETE"
    /\ lastEvent.type = "CONFIRM"
    /\ before.groupModeState = "SELECTING_G2"
    /\ confirmedGroup1 # Null
    /\ confirmedGroup2 # Null
    /\ Len(confirmedGroup1.features) = 1
    /\ Len(confirmedGroup2.features) = 2

\* C30: every group payload pushed to the host has comparison_mode = group
\* and both groups non-null, each with a non-empty feature list and a
\* non-null aggregate of count >= 1; so the host renders the comparison table
\* and takes neither its 'Incomplete group selection' nor its 'Missing
\* aggregate data' branch.
C30_PayloadComplete ==
    \A k \in 1 .. Len(pushed) :
        pushed[k].kind = "group"
            => /\ pushed[k].comparison_mode = "group"
               /\ pushed[k].group1 # Null
               /\ pushed[k].group2 # Null
               /\ Len(pushed[k].group1.features) >= 1
               /\ Len(pushed[k].group2.features) >= 1
               /\ pushed[k].group1.aggregate # Null
               /\ pushed[k].group2.aggregate # Null
               /\ pushed[k].group1.aggregate.count >= 1
               /\ pushed[k].group2.aggregate.count >= 1
               /\ render_group_comparison(pushed[k]) = "comparison table"

\* a COMPARE has pushed the payload of a Group 1 of one feature and a Group 2
\* of two
C30_Witness ==
    /\ lastEvent.type = "COMPARE"
    /\ Len(pushed) = 1
    /\ pushed[1].kind = "group"
    /\ pushed[1].group1.aggregate.count = 1
    /\ pushed[1].group2.aggregate.count = 2
    /\ render_group_comparison(pushed[1]) = "comparison table"

\* C31: after every handled event the two selection models exclude each
\* other: in group mode the individual set is empty; in individual mode both
\* working groups are empty and both confirmed snapshots are null.
C31_ModelsExclusive ==
    /\ selectionMode = "group" => selectedFeatures = <<>>
    /\ selectionMode = "individual"
          => /\ group1Features = <<>>
             /\ group2Features = <<>>
             /\ confirmedGroup1 = Null
             /\ confirmedGroup2 = Null

\* a group session that followed an individual selection of two features (the
\* host still holds it): Group 1 is confirmed, Group 2 is being filled and
\* the individual set is empty
C31_Witness ==
    /\ selectionMode = "group"
    /\ hostValue.kind = "individual"
    /\ Len(hostValue.features) = 2
    /\ confirmedGroup1 # Null
    /\ Len(group2Features) >= 1
    /\ selectedFeatures = <<>>

\* C32: a click on the button of the mode that is already active is a no-op:
\* the individual set, both working groups, both confirmed snapshots, the
\* machine state, the visual state and the host-held value are unchanged (and
\* nothing is pushed to the host).
C32_SameModeIsNoOp ==
    [][( /\ lastEvent'.type = "switch"
         /\ lastEvent'.mode = selectionMode )
       => /\ UNCHANGED <<selectionMode, selectedFeatures, group1Features,
                         group2Features, confirmedGroup1, confirmedGroup2,
                         groupModeState, featureGroupMap, featureState, ui,
                         hostValue>>
          /\ pushed' = <<>>]_vars

\* the Group button was pressed in group mode with Group 1 confirmed and a
\* feature in Group 2; both are still there
C32_Witness ==
    /\ lastEvent = Event("switch", -1, "group")
    /\ before.selectionMode = "group"
    /\ before.groupModeState = "SELECTING_G2"
    /\ selectionMode = "group"
    /\ groupModeState = "SELECTING_G2"
    /\ confirmedGroup1 # Null
    /\ Len(group2Features) >= 1

\* C33: a switch from group to individual mode pushes the empty individual
\* set to the host in the same event; the host then holds the empty set,
\* whatever it held before, a group payload of an earlier COMPARE included.
C33_SwitchBackPushesEmpty ==
    [][( /\ selectionMode = "group"
         /\ lastEvent' = Event("switch", -1, "individual") )
       => /\ selectionMode' = "individual"
          /\ selectedFeatures' = <<>>
          /\ pushed' = << IndividualValue(<<>>) >>
          /\ hostValue' = IndividualValue(<<>>)]_vars

\* the switch back to individual mode found the host holding the group
\* payload of a COMPARE and replaced it by the empty individual set
C33_Witness ==
    /\ lastEvent = Event("switch", -1, "individual")
    /\ before.selectionMode = "group"
    /\ before.host = "group"
    /\ selectionMode = "individual"
    /\ pushed = << IndividualValue(<<>>) >>
    /\ hostValue = IndividualValue(<<>>)

\* the calls of resetGroupMode made by the last event
ResetCalls == { k \in 1 .. Len(callLog.calls) : callLog.calls[k].fn = "resetGroupMode" }

\* C34: the handling of RESET always terminates, in every state and mode:
\* every call returns and none overflows the stack; resetGroupMode is entered
\* at most once; the only call nested in it is transitionGroupState with
\* START_SELECTING, which finds the machine in IDLE; so the calls nest as
\* RESET -> resetGroupMode -> START_SELECTING and no deeper.
C34_ResetTerminates ==
    lastEvent.type = "RESET"
        => /\ ~ callLog.thrown
           /\ callLog.depth = 0
           /\ Len(callLog.calls) \in 1 .. 3
           /\ callLog.calls[1] = [fn |-> "transitionGroupState",
                                  action |-> "RESET",
                                  found |-> before.groupModeState,
                                  depth |-> 1]
           /\ Cardinality(ResetCalls) <= 1
           /\ \A k \in 2 .. Len(callLog.calls) :
                 /\ callLog.calls[k].depth = k
                 /\ callLog.calls[k].fn = "transitionGroupState"
                       => /\ k = 3
                          /\ callLog.calls[2].fn = "resetGroupMode"
                          /\ callLog.calls[k].action = "START_SELECTING"
                          /\ callLog.calls[k].found = "IDLE"

\* a RESET pressed in COMPLETE has gone through resetGroupMode and its
\* restart of the machine, and every call has returned
C34_Witness ==
    /\ lastEvent.type = "RESET"
    /\ before.selectionMode = "group"
    /\ before.groupModeState = "COMPLETE"
    /\ Len(callLog.calls) = 3
    /\ callLog.calls[2].fn = "resetGroupMode"
    /\ callLog.calls[3].action = "START_SELECTING"
    /\ callLog.depth = 0
    /\ groupModeState = "SELECTING_G1"

\* the row (from 1) a feature was built from, found by its identifier
RowOfFeature(f) ==
    CHOOSE i \in 1 .. Len(df.rows) :
        f.properties.feature_id = IF df.overlay_type = "parcels"
                                  THEN df.rows[i].site_parcel_id
                                  ELSE df.rows[i].label

\* C35: in build_geojson_maplibre the fillColor of every emitted feature is
\* the colour computed from the metric value of the row the feature was built
\* from, also when earlier rows were dropped for an unparsable geometry: the
\* colours are taken by the position of the row in the input, not by the
\* position of the feature in the output. So a feature of a row without a
\* metric value is gray with opacity 0.39, and any other has opacity 0.71 and
\* the first (last) colour of the ramp when its value is at or below (above)
\* the low (high) clip bound returned.
C35_FillColorOfOwnRow ==
    geojson # NoValue
        => LET computed == calculate_colors(
                              [i \in 1 .. Len(df.rows) |-> df.rows[i].metric])
           IN \A k \in 1 .. Len(geojson.features) :
                 LET f == geojson.features[k]
                     i == RowOfFeature(f)
                     metric == df.rows[i].metric
                     fill == f.properties.fillColor
                 IN /\ fill = ColorToCss(computed.colors[i])
                    /\ metric.nan
                          => fill = [r |-> 128, g |-> 128, b |-> 128, alpha |-> 39]
                    /\ ~ metric.nan
                          => /\ fill.alpha = 71
                             /\ 100 * metric.v <= geojson.p2
                                   => <<fill.r, fill.g, fill.b>> = MAGMA_STOPS[1].color
                             /\ 100 * metric.v >= geojson.p98
                                   => <<fill.r, fill.g, fill.b>> =
                                          MAGMA_STOPS[Len(MAGMA_STOPS)].color

\* three rows were built of which the first, of value 0, was dropped for its
\* malformed geometry: the feature of the second row, which has no value, is
\* gray and the feature of the third, of value 20, has the last colour of the
\* ramp
C35_Witness ==
    /\ geojson # NoValue
    /\ Len(df.rows) = 3
    /\ df.rows[1].geom = "malformed"
    /\ df.rows[1].metric = Num(0)
    /\ df.rows[2].metric = NaN
    /\ df.rows[3].metric = Num(20)
    /\ Len(geojson.features) = 2
    /\ geojson.features[1].properties.fillColor =
          [r |-> 128, g |-> 128, b |-> 128, alpha |-> 39]
    /\ geojson.features[2].properties.fillColor =
          [r |-> 0, g |-> 0, b |-> 4, alpha |-> 71]

\* C36: in every reachable state the feature-to-group map agrees with the
\* working lists: a feature id maps to 'group1' exactly when it is in the
\* Group 1 working list, to 'group2' exactly when it is in the Group 2 working
\* list, and has no entry otherwise.
C36_MapAgreesWithLists ==
    \A n \in 1 .. Len(data) :
        LET id == KeyOf(n)
            entry == IF id \in DOMAIN featureGroupMap
                     THEN featureGroupMap[id] ELSE "none"
        IN /\ entry = "group1" <=> id \in Ids(group1Features)
           /\ entry = "group2" <=> id \in Ids(group2Features)
           /\ entry = "none"
                 <=> id \notin Ids(group1Features) \cup Ids(group2Features)
           /\ DOMAIN featureGroupMap \subseteq { KeyOf(m) : m \in 1 .. Len(data) }

\* a click has taken a feature out of Group 2 again while Group 1 holds one
\* and Group 2 another: the map has exactly the two entries left
C36_Witness ==
    /\ lastEvent.type = "click"
    /\ before.groupModeState = "SELECTING_G2"
    /\ before.group2 = 2
    /\ Len(group2Features) = 1
    /\ Len(group1Features) = 1
    /\ Cardinality(DOMAIN featureGroupMap) = 2
    /\ featureGroupMap[group1Features[1].id] = "group1"
    /\ featureGroupMap[group2Features[1].id] = "group2"

====
